---- MODULE Spec2Model ----
(***************************************************************************)
(* NV item 00028874 encoder / decoder.                                     *)
(*                                                                         *)
(* Buffers are sequences of bytes (0..255), texts are sequences of         *)
(* character codes, carriers are the legacy records                        *)
(* [band, bclass, ant, ulclass] that the encoder and the decoder use.      *)
(***************************************************************************)
EXTENDS Integers, Sequences, FiniteSets, TLC

\* ------------------------------------------------------------------ bounds
MaxCarriers == 2
MaxEntries == 2
MaxPieces == 3
MaxCutPieces == 2
MaxEditPieces == 2
MaxDigits == 2

\* --------------------------------------------------------------- utilities
Zero6 == <<0, 0, 0, 0, 0, 0>>

Range(s) == {s[i] : i \in 1..Len(s)}

RECURSIVE SumSeq(_)
SumSeq(s) == IF s = <<>> THEN 0 ELSE Head(s) + SumSeq(Tail(s))

RECURSIVE Flatten(_)
Flatten(ss) == IF ss = <<>> THEN <<>> ELSE Head(ss) \o Flatten(Tail(ss))

Zeros(n) == [i \in 1..n |-> 0]

\* Array.prototype.filter
Filter(s, P(_)) ==
  LET idx == {i \in 1..Len(s) : P(s[i])}
  IN [k \in 1..Cardinality(idx) |->
        s[CHOOSE i \in idx : Cardinality({j \in idx : j < i}) = k - 1]]

\* Array.prototype.findIndex on the 6 slots (0 when there is no such slot)
FirstSlot(P(_)) ==
  IF \E i \in 1..6 : P(i) THEN CHOOSE i \in 1..6 : P(i) /\ \A j \in 1..(i - 1) : ~P(j)
  ELSE 0

\* Array.prototype.sort with a comparator (stable); Less(a, b) is "comparator(a, b) < 0"
StableSort(s, Less(_, _)) ==
  LET rank(i) == Cardinality({j \in 1..Len(s) :
                    Less(s[j], s[i]) \/ (~Less(s[i], s[j]) /\ j < i)})
  IN [k \in 1..Len(s) |-> s[CHOOSE i \in 1..Len(s) : rank(i) = k - 1]]

\* the orderings of a list
Orderings(list) ==
  {[k \in 1..Len(list) |-> list[q[k]]] :
     q \in {f \in [1..Len(list) -> 1..Len(list)] : \A i, j \in 1..Len(list) : f[i] = f[j] => i = j}}

\* -------------------------------------------------------------------- text
ChDash == 45
ChColon == 58
ChBar == 124
Ch0 == 48

\* Number.prototype.toString / template-literal conversion of a non-negative integer
RECURSIVE ToStr(_)
ToStr(n) == IF n < 10 THEN <<Ch0 + n>> ELSE ToStr(n \div 10) \o <<Ch0 + (n % 10)>>

IsDigit(c) == c >= 48 /\ c <= 57
IsUpper(c) == c >= 65 /\ c <= 90
IsLower(c) == c >= 97 /\ c <= 122
\* [A-Z] under the /i flag
IsLetter(c) == IsUpper(c) \/ IsLower(c)
ToUpper(c) == IF IsLower(c) THEN c - 32 ELSE c

\* parseInt(digits, 10)
RECURSIVE ParseInt(_)
ParseInt(ds) == IF ds = <<>> THEN 0 ELSE ParseInt(SubSeq(ds, 1, Len(ds) - 1)) * 10 + (ds[Len(ds)] - Ch0)

\* Array.prototype.join
RECURSIVE Join(_, _)
Join(parts, sep) ==
  IF parts = <<>> THEN <<>>
  ELSE IF Len(parts) = 1 THEN parts[1]
  ELSE parts[1] \o <<sep>> \o Join(Tail(parts), sep)

\* String.prototype.split on one separator character
RECURSIVE Split(_, _)
Split(t, sep) ==
  IF \E i \in 1..Len(t) : t[i] = sep
  THEN LET i == CHOOSE k \in 1..Len(t) : t[k] = sep /\ \A j \in 1..(k - 1) : t[j] # sep
       IN <<SubSeq(t, 1, i - 1)>> \o Split(SubSeq(t, i + 1, Len(t)), sep)
  ELSE <<t>>

\* comparison of strings by UTF-16 code units (the default Array.prototype.sort order)
RECURSIVE CodeUnitLess(_, _)
CodeUnitLess(a, b) ==
  IF b = <<>> THEN FALSE
  ELSE IF a = <<>> THEN TRUE
  ELSE IF Head(a) # Head(b) THEN Head(a) < Head(b)
  ELSE CodeUnitLess(Tail(a), Tail(b))

\* String.prototype.localeCompare: primary weights of the root collation
\* (punctuation before digits before letters, letters without case)
PrimaryWeight(c) ==
  IF IsDigit(c) THEN 100 + (c - Ch0)
  ELSE IF IsLetter(c) THEN 200 + (ToUpper(c) - 65)
  ELSE IF c = ChDash THEN 1
  ELSE IF c = ChColon THEN 2
  ELSE IF c = 64 THEN 3
  ELSE IF c = ChBar THEN 4
  ELSE 5

RECURSIVE PrimaryCompare(_, _)
PrimaryCompare(a, b) ==
  IF a = <<>> /\ b = <<>> THEN 0
  ELSE IF a = <<>> THEN -1
  ELSE IF b = <<>> THEN 1
  ELSE IF PrimaryWeight(Head(a)) < PrimaryWeight(Head(b)) THEN -1
  ELSE IF PrimaryWeight(Head(a)) > PrimaryWeight(Head(b)) THEN 1
  ELSE PrimaryCompare(Tail(a), Tail(b))

\* tertiary level: at the first case difference lower case sorts first
RECURSIVE TertiaryCompare(_, _)
TertiaryCompare(a, b) ==
  IF a = <<>> \/ b = <<>> THEN 0
  ELSE IF Head(a) = Head(b) THEN TertiaryCompare(Tail(a), Tail(b))
  ELSE IF IsLower(Head(a)) /\ IsUpper(Head(b)) THEN -1
  ELSE IF IsUpper(Head(a)) /\ IsLower(Head(b)) THEN 1
  ELSE IF Head(a) < Head(b) THEN -1 ELSE 1

localeCompare(a, b) ==
  LET p == PrimaryCompare(a, b) IN IF p # 0 THEN p ELSE TertiaryCompare(a, b)

\* ---------------------------------------------------------------- combo.js
classToCC(bclass) == IF bclass >= 1 /\ bclass <= 6 THEN bclass ELSE 1

maxTotalUL == 2

\* ------------------------------------------------------------------- bytes
U8(data, p) == data[p + 1]
U16(data, p) == data[p + 1] + 256 * data[p + 2]
W8(val) == <<val % 256>>
W16(val) == <<(val % 65536) % 256, (val % 65536) \div 256>>

\* ----------------------------------------------------------------- decoder
isZlibCompressed(data) ==
  Len(data) >= 2 /\ data[1] = 120 /\ data[2] \in {1, 94, 156, 218}

EofMessage == [kind |-> "eof", text |-> "Unexpected end of file", hasOffset |-> FALSE]
NoCarrierMessage ==
  [kind |-> "nocarrier", text |-> "Incorrect format: no any downlink carrier in combo", hasOffset |-> FALSE]
UnknownTagMessage(tag, offset) ==
  [kind |-> "tag", text |-> "Incorrect format: incorrect descriptor type", tag |-> tag,
   hasOffset |-> TRUE, offset |-> offset]

IncStat(stats, tag) == [stats EXCEPT ![tag] = @ + 1]

\* text of one carrier slot in buildCombo
SlotText(b, c, a, u) ==
  ToStr(b) \o <<c + 64>> \o (IF a # 0 THEN ToStr(a) ELSE <<>>) \o (IF u # 0 THEN <<u + 64>> ELSE <<>>)

NonZeroSlots(band) == Filter(<<1, 2, 3, 4, 5, 6>>, LAMBDA i : band[i] # 0)

\* variant of buildCombo: the MIMO of a slot is taken as it is, without the default of 2
buildCombo_noMimoDefault(band, bclass, ant, ulclass, descType, groupIdx) ==
  LET slots == NonZeroSlots(band)
      ulCount == Cardinality({i \in 1..6 : ulclass[i] > 0})
  IN [text |-> Join([k \in 1..Len(slots) |->
                       SlotText(band[slots[k]], bclass[slots[k]], ant[slots[k]], ulclass[slots[k]])], ChDash),
      streams |-> SumSeq([k \in 1..Len(slots) |-> classToCC(bclass[slots[k]]) * ant[slots[k]]]),
      hasULCA |-> ulCount > 1,
      descType |-> descType,
      groupIdx |-> groupIdx,
      rawBand |-> band, rawBclass |-> bclass, rawAnt |-> ant, rawUlclass |-> ulclass]

buildCombo(band, bclass, ant, ulclass, descType, groupIdx) ==
  LET slots == NonZeroSlots(band)
      ulCount == Cardinality({i \in 1..6 : ulclass[i] > 0})
  IN [text |-> Join([k \in 1..Len(slots) |->
                       SlotText(band[slots[k]], bclass[slots[k]], ant[slots[k]], ulclass[slots[k]])], ChDash),
      streams |-> SumSeq([k \in 1..Len(slots) |->
                       classToCC(bclass[slots[k]]) * (IF ant[slots[k]] # 0 THEN ant[slots[k]] ELSE 2)]),
      hasULCA |-> ulCount > 1,
      descType |-> descType,
      groupIdx |-> groupIdx,
      rawBand |-> band, rawBclass |-> bclass, rawAnt |-> ant, rawUlclass |-> ulclass]

\* layout of the three DL headers: bytes per slot
SlotSize(tag) == IF tag = 137 THEN 3 ELSE IF tag = 201 THEN 4 ELSE 11
\* layout of the three uplink records: bytes skipped after each pair, bytes skipped at the end
PairPad(tag) == IF tag = 138 THEN 0 ELSE IF tag = 202 THEN 1 ELSE 8
TailPad(tag) == IF tag = 138 THEN 12 ELSE IF tag = 202 THEN 16 ELSE 44
HeaderOf(tag) == tag - 1

\* the 8 MIMO bytes of a 333 slot: antVal = antVal * 10 + antByte over the non-zero bytes
RECURSIVE readAnt(_, _, _)
readAnt(data, p, n) ==
  IF n = 0 THEN 0
  ELSE LET prev == readAnt(data, p, n - 1)
           antByte == U8(data, p + n - 1)
       IN IF antByte # 0 THEN prev * 10 + antByte ELSE prev

readBand(data, p, tag, i) == U16(data, p + SlotSize(tag) * (i - 1))
readBclass(data, p, tag, i) == U8(data, p + SlotSize(tag) * (i - 1) + 2)
readAntSlot(data, p, tag, i) ==
  IF tag = 137 THEN (IF readBand(data, p, tag, i) # 0 THEN 2 ELSE 0)
  ELSE IF tag = 201 THEN U8(data, p + SlotSize(tag) * (i - 1) + 3)
  ELSE readAnt(data, p + SlotSize(tag) * (i - 1) + 3, 8)

\* attach one (band, ulClass) pair to the first slot whose band equals it
attachPair(band, ulclass, ulBand, ulClass) ==
  LET i == FirstSlot(LAMBDA k : band[k] = ulBand)
  IN IF i = 0 THEN ulclass ELSE [ulclass EXCEPT ![i] = ulClass]

EmptyOutput(data) ==
  [fileSize |-> Len(data), wasCompressed |-> FALSE, threw |-> FALSE,
   formatVersion |-> 0, numDescriptors |-> 0,
   combos |-> <<>>, numCombos |-> 0, maxStreams |-> 0, errors |-> <<>>,
   descriptorStats |-> [t \in {137, 138, 201, 202, 333, 334} |-> 0],
   groups |-> <<>>, fptr |-> 0]

\* variant of readDLHeader: the group is opened before the header is found to have no band
readDLHeader_groupFirst(data, st, out, tag, p) ==
  LET counted == [out EXCEPT !.descriptorStats = IncStat(@, tag)]
      size == 6 * SlotSize(tag)
  IN IF p + size > Len(data)
     THEN [done |-> TRUE, st |-> st, out |-> [counted EXCEPT !.errors = Append(@, EofMessage), !.fptr = st.fptr]]
     ELSE LET band == [i \in 1..6 |-> readBand(data, p, tag, i)]
              bclass == [i \in 1..6 |-> readBclass(data, p, tag, i)]
              ant == [i \in 1..6 |-> readAntSlot(data, p, tag, i)]
              opened == [counted EXCEPT !.groups = Append(@,
                           [descType |-> tag, band |-> band, bclass |-> bclass, ant |-> ant,
                            combos |-> <<>>])]
          IN IF \A i \in 1..6 : band[i] = 0
             THEN [done |-> TRUE, st |-> st,
                   out |-> [opened EXCEPT !.errors = Append(@, NoCarrierMessage), !.fptr = st.fptr]]
             ELSE [done |-> FALSE,
                   st |-> [fptr |-> p + size, band |-> band, bclass |-> bclass, ant |-> ant,
                           currentGroupIdx |-> Len(out.groups)],
                   out |-> opened]

\* one DL header (137, 201 or 333) read at cursor p, just after its tag
readDLHeader(data, st, out, tag, p) ==
  LET counted == [out EXCEPT !.descriptorStats = IncStat(@, tag)]
      size == 6 * SlotSize(tag)
  IN IF p + size > Len(data)
     THEN [done |-> TRUE, st |-> st, out |-> [counted EXCEPT !.errors = Append(@, EofMessage), !.fptr = st.fptr]]
     ELSE LET band == [i \in 1..6 |-> readBand(data, p, tag, i)]
              bclass == [i \in 1..6 |-> readBclass(data, p, tag, i)]
              ant == [i \in 1..6 |-> readAntSlot(data, p, tag, i)]
          IN IF \A i \in 1..6 : band[i] = 0
             THEN [done |-> TRUE, st |-> st,
                   out |-> [counted EXCEPT !.errors = Append(@, NoCarrierMessage), !.fptr = st.fptr]]
             ELSE [done |-> FALSE,
                   st |-> [fptr |-> p + size, band |-> band, bclass |-> bclass, ant |-> ant,
                           currentGroupIdx |-> Len(out.groups)],
                   out |-> [counted EXCEPT !.groups = Append(@,
                              [descType |-> tag, band |-> band, bclass |-> bclass, ant |-> ant,
                               combos |-> <<>>])]]

\* variant of readULRecord: numCombos is incremented before the index is pushed to the group
readULRecord_countFirst(data, st, out, tag, p) ==
  LET counted == [out EXCEPT !.descriptorStats = IncStat(@, tag)]
      p2 == p + 3 + PairPad(tag)
      end == p2 + 3 + PairPad(tag) + TailPad(tag)
  IN IF p2 + 3 > Len(data)
     THEN [done |-> TRUE, st |-> st, out |-> [counted EXCEPT !.errors = Append(@, EofMessage), !.fptr = st.fptr]]
     ELSE LET ul1 == attachPair(st.band, Zero6, U16(data, p), U8(data, p + 2))
              ul2 == IF U16(data, p2) # 0
                     THEN attachPair(st.band, ul1, U16(data, p2), U8(data, p2 + 2))
                     ELSE ul1
              combo == buildCombo(st.band, st.bclass, st.ant, ul2, HeaderOf(tag), st.currentGroupIdx)
          IN IF \A i \in 1..6 : st.band[i] = 0
             THEN [done |-> FALSE, st |-> [st EXCEPT !.fptr = end], out |-> counted]
             ELSE [done |-> FALSE, st |-> [st EXCEPT !.fptr = end],
                   out |-> [counted EXCEPT
                              !.combos = Append(@, combo),
                              !.groups[st.currentGroupIdx + 1].combos = Append(@, out.numCombos + 1),
                              !.numCombos = @ + 1,
                              !.maxStreams = IF combo.streams > @ THEN combo.streams ELSE @]]

\* one uplink record (138, 202 or 334) read at cursor p, just after its tag
readULRecord(data, st, out, tag, p) ==
  LET counted == [out EXCEPT !.descriptorStats = IncStat(@, tag)]
      p2 == p + 3 + PairPad(tag)
      end == p2 + 3 + PairPad(tag) + TailPad(tag)
  IN IF p2 + 3 > Len(data)
     THEN [done |-> TRUE, st |-> st, out |-> [counted EXCEPT !.errors = Append(@, EofMessage), !.fptr = st.fptr]]
     ELSE LET ul1 == attachPair(st.band, Zero6, U16(data, p), U8(data, p + 2))
              ul2 == IF U16(data, p2) # 0
                     THEN attachPair(st.band, ul1, U16(data, p2), U8(data, p2 + 2))
                     ELSE ul1
              combo == buildCombo(st.band, st.bclass, st.ant, ul2, HeaderOf(tag), st.currentGroupIdx)
          IN IF \A i \in 1..6 : st.band[i] = 0
             THEN [done |-> FALSE, st |-> [st EXCEPT !.fptr = end], out |-> counted]
             ELSE [done |-> FALSE, st |-> [st EXCEPT !.fptr = end],
                   out |-> [counted EXCEPT
                              !.combos = Append(@, combo),
                              !.groups[st.currentGroupIdx + 1].combos = Append(@, out.numCombos),
                              !.numCombos = @ + 1,
                              !.maxStreams = IF combo.streams > @ THEN combo.streams ELSE @]]

RECURSIVE decodeLoop(_, _, _)
decodeLoop(data, st, out) ==
  IF st.fptr >= Len(data) THEN [out EXCEPT !.fptr = st.fptr]
  ELSE IF st.fptr + 2 > Len(data) THEN [out EXCEPT !.errors = Append(@, EofMessage), !.fptr = st.fptr]
  ELSE LET item16 == U16(data, st.fptr)
           p == st.fptr + 2
           r == IF item16 \in {137, 201, 333} THEN readDLHeader(data, st, out, item16, p)
                ELSE IF item16 \in {138, 202, 334} THEN readULRecord(data, st, out, item16, p)
                ELSE [done |-> TRUE, st |-> st,
                      out |-> [out EXCEPT !.errors = Append(@, UnknownTagMessage(item16, p - 2)),
                                          !.fptr = st.fptr]]
       IN IF r.done THEN r.out ELSE decodeLoop(data, r.st, r.out)

\* variant of decodeFile: the loop is entered only when descriptors are declared
decodeFile_declaredCount(data) ==
  IF isZlibCompressed(data) THEN [EmptyOutput(data) EXCEPT !.threw = TRUE, !.wasCompressed = TRUE]
  ELSE IF Len(data) < 2 THEN [EmptyOutput(data) EXCEPT !.errors = <<EofMessage>>]
  ELSE IF Len(data) < 4
       THEN [EmptyOutput(data) EXCEPT !.formatVersion = U16(data, 0), !.errors = <<EofMessage>>, !.fptr = 2]
  ELSE IF U16(data, 2) = 0
       THEN [EmptyOutput(data) EXCEPT !.formatVersion = U16(data, 0), !.fptr = 4]
  ELSE decodeLoop(data,
                  [fptr |-> 4, band |-> Zero6, bclass |-> Zero6, ant |-> Zero6, currentGroupIdx |-> -1],
                  [EmptyOutput(data) EXCEPT !.formatVersion = U16(data, 0), !.numDescriptors = U16(data, 2)])

decodeFile(data) ==
  IF isZlibCompressed(data) THEN [EmptyOutput(data) EXCEPT !.threw = TRUE, !.wasCompressed = TRUE]
  ELSE IF Len(data) < 2 THEN [EmptyOutput(data) EXCEPT !.errors = <<EofMessage>>]
  ELSE IF Len(data) < 4
       THEN [EmptyOutput(data) EXCEPT !.formatVersion = U16(data, 0), !.errors = <<EofMessage>>, !.fptr = 2]
  ELSE decodeLoop(data,
                  [fptr |-> 4, band |-> Zero6, bclass |-> Zero6, ant |-> Zero6, currentGroupIdx |-> -1],
                  [EmptyOutput(data) EXCEPT !.formatVersion = U16(data, 0), !.numDescriptors = U16(data, 2)])

\* ---------------------------------------------------------------- bands.js
FDDBands == (1..14) \cup (17..28) \cup {30, 31, 65, 66, 68, 70, 71, 72, 73, 74, 85, 87, 88}
TDDBands == 33..53
SDLBands == {29, 32, 67, 69, 75, 76}

getBandDuplexMode(b) ==
  IF b \in FDDBands THEN "FDD" ELSE IF b \in TDDBands THEN "TDD" ELSE IF b \in SDLBands THEN "SDL" ELSE "null"

\* ------------------------------------------------------------ validation.js
maxDLCC == 5
maxULSCell == 1
MAX_CC == 6

totalCC(carriers) == SumSeq([i \in 1..Len(carriers) |-> classToCC(carriers[i].bclass)])

createError(code) == [code |-> code, severity |-> "error"]
createWarning(code) == [code |-> code, severity |-> "warning"]

createResult(errors, warnings) == [valid |-> Len(errors) = 0, errors |-> errors, warnings |-> warnings]

\* each validator returns <<>> (null) or <<the error>>
validateNoFDDTDDMix(carriers) ==
  IF (\E i \in 1..Len(carriers) : getBandDuplexMode(carriers[i].band) = "FDD")
     /\ (\E i \in 1..Len(carriers) : getBandDuplexMode(carriers[i].band) = "TDD")
  THEN <<createError("FDD_TDD_MIX")>> ELSE <<>>

validateTotalCCLimit(carriers, maxCC) ==
  IF Len(carriers) > 0 /\ totalCC(carriers) > maxCC THEN <<createError("EXCEED_MAX_CC")>> ELSE <<>>

validateDLCCLimit(carriers, limit) ==
  IF Len(carriers) > 0 /\ totalCC(carriers) > limit THEN <<createError("EXCEED_MAX_DL_CC")>> ELSE <<>>

validateULSCellLimit(carriers, pcellIndex, limit) ==
  LET ulSCellCount == Cardinality({i \in 1..Len(carriers) : i # pcellIndex + 1 /\ carriers[i].ulclass # 0})
  IN IF Len(carriers) > 0 /\ ulSCellCount > limit THEN <<createError("EXCEED_MAX_UL_SCELL")>> ELSE <<>>

validateTotalULLimit(carriers, limit) ==
  IF Len(carriers) > 0 /\ Cardinality({i \in 1..Len(carriers) : carriers[i].ulclass # 0}) > limit
  THEN <<createError("EXCEED_MAX_TOTAL_UL")>> ELSE <<>>

validateBandsExist(carriers) ==
  IF \E i \in 1..Len(carriers) : getBandDuplexMode(carriers[i].band) = "null"
  THEN <<createWarning("INVALID_BAND")>> ELSE <<>>

validateSDLNoUplink(carriers) ==
  IF \E i \in 1..Len(carriers) : getBandDuplexMode(carriers[i].band) = "SDL" /\ carriers[i].ulclass # 0
  THEN <<createError("SDL_WITH_UL")>> ELSE <<>>

\* DEVICE_PROFILES; supportedBands {} and bandMimo with an empty domain restrict nothing
NoBandMimo == [b \in {} |-> {}]
GenericCat6 ==
  [name |-> "Generic Cat 6", maxDLCC |-> 2, maxULSCell |-> 0, maxTotalUL |-> 1,
   supportedBands |-> {}, bandMimo |-> NoBandMimo]
GenericCat18 ==
  [name |-> "Generic Cat 18", maxDLCC |-> 5, maxULSCell |-> 1, maxTotalUL |-> 2,
   supportedBands |-> {}, bandMimo |-> NoBandMimo]
MiFi8800L ==
  [name |-> "MiFi 8800L", maxDLCC |-> 5, maxULSCell |-> 1, maxTotalUL |-> 2,
   supportedBands |-> {1, 2, 3, 4, 5, 7, 8, 12, 13, 20, 25, 26, 28, 29, 30, 66},
   bandMimo |-> [b \in {2, 4, 66} |-> {2, 4}]]

\* variant of validateAgainstProfile: an unsupported MIMO is an error
validateAgainstProfile_mimoError(carriers, profile) ==
  IF Len(carriers) = 0 THEN <<>>
  ELSE
    (IF profile.supportedBands # {} /\ \E i \in 1..Len(carriers) : carriers[i].band \notin profile.supportedBands
     THEN <<createError("UNSUPPORTED_BAND")>> ELSE <<>>)
    \o Flatten([i \in 1..Len(carriers) |->
                  LET mimo == IF carriers[i].ant # 0 THEN carriers[i].ant ELSE 2
                  IN IF carriers[i].band \in DOMAIN profile.bandMimo
                        /\ mimo \notin profile.bandMimo[carriers[i].band]
                     THEN <<createError("UNSUPPORTED_MIMO")>> ELSE <<>>])
    \o validateDLCCLimit(carriers, profile.maxDLCC)
    \o validateULSCellLimit(carriers, 0, profile.maxULSCell)
    \o (IF profile.maxTotalUL # 0 THEN validateTotalULLimit(carriers, profile.maxTotalUL) ELSE <<>>)

validateAgainstProfile(carriers, profile) ==
  IF Len(carriers) = 0 THEN <<>>
  ELSE
    (IF profile.supportedBands # {} /\ \E i \in 1..Len(carriers) : carriers[i].band \notin profile.supportedBands
     THEN <<createError("UNSUPPORTED_BAND")>> ELSE <<>>)
    \o Flatten([i \in 1..Len(carriers) |->
                  LET mimo == IF carriers[i].ant # 0 THEN carriers[i].ant ELSE 2
                  IN IF carriers[i].band \in DOMAIN profile.bandMimo
                        /\ mimo \notin profile.bandMimo[carriers[i].band]
                     THEN <<createWarning("UNSUPPORTED_MIMO")>> ELSE <<>>])
    \o validateDLCCLimit(carriers, profile.maxDLCC)
    \o validateULSCellLimit(carriers, 0, profile.maxULSCell)
    \o (IF profile.maxTotalUL # 0 THEN validateTotalULLimit(carriers, profile.maxTotalUL) ELSE <<>>)

\* options.profile is <<>> (null) or <<profile>>
validateCombo(carriers, options) ==
  IF Len(carriers) = 0 THEN createResult(<<createError("EMPTY_COMBO")>>, <<>>)
  ELSE
    LET profileErrors == IF options.profile # <<>>
                         THEN validateAgainstProfile(carriers, options.profile[1]) ELSE <<>>
        IsError(e) == e.severity = "error"
        IsWarning(e) == e.severity # "error"
    IN createResult(
         (IF ~options.allowFDDTDDMix THEN validateNoFDDTDDMix(carriers) ELSE <<>>)
           \o validateSDLNoUplink(carriers)
           \o validateTotalCCLimit(carriers, options.maxCC)
           \o validateDLCCLimit(carriers, options.maxDLCC)
           \o validateULSCellLimit(carriers, options.pcellIndex, options.maxULSCell)
           \o validateTotalULLimit(carriers, options.maxTotalUL)
           \o Filter(profileErrors, IsError),
         validateBandsExist(carriers) \o Filter(profileErrors, IsWarning))

\* ----------------------------------------------------------------- encoder
\* number of leading decimal digits of a text
LeadDigits(t) ==
  IF \E i \in 1..Len(t) : ~IsDigit(t[i])
  THEN (CHOOSE i \in 1..Len(t) : ~IsDigit(t[i]) /\ \A j \in 1..(i - 1) : IsDigit(t[j])) - 1
  ELSE Len(t)

\* part.match(/^(\d+)([A-Z])(\d+)?([A-Z])?$/i)
matchCarrier(part) ==
  LET nb == LeadDigits(part)
      rest1 == SubSeq(part, nb + 1, Len(part))
      rest2 == IF rest1 = <<>> THEN <<>> ELSE Tail(rest1)
      nm == LeadDigits(rest2)
      rest3 == SubSeq(rest2, nm + 1, Len(rest2))
      ok == /\ nb >= 1
            /\ rest1 # <<>>
            /\ IsLetter(rest1[1])
            /\ (rest3 = <<>> \/ (Len(rest3) = 1 /\ IsLetter(rest3[1])))
  IN IF ~ok THEN [ok |-> FALSE]
     ELSE [ok |-> TRUE,
           band |-> ParseInt(SubSeq(part, 1, nb)),
           bclass |-> ToUpper(rest1[1]) - 64,
           ant |-> IF nm > 0 THEN ParseInt(SubSeq(rest2, 1, nm)) ELSE 2,
           ulclass |-> IF rest3 # <<>> THEN ToUpper(rest3[1]) - 64 ELSE 0]

\* [ok, carriers]: ok is FALSE when parseComboString throws
parseComboString(comboStr) ==
  LET parts == Filter(Split(comboStr, ChDash), LAMBDA part : part # <<>>)
      ms == [i \in 1..Len(parts) |-> matchCarrier(parts[i])]
  IN IF \E i \in 1..Len(ms) : ~ms[i].ok THEN [ok |-> FALSE, carriers |-> <<>>]
     ELSE [ok |-> TRUE,
           carriers |-> [i \in 1..Len(ms) |->
                           [band |-> ms[i].band, bclass |-> ms[i].bclass,
                            ant |-> ms[i].ant, ulclass |-> ms[i].ulclass]]]

calculateStreams(carriers) ==
  SumSeq([i \in 1..Len(carriers) |->
            classToCC(carriers[i].bclass) * (IF carriers[i].ant # 0 THEN carriers[i].ant ELSE 2)])

checkHasULCA(carriers) == Cardinality({i \in 1..Len(carriers) : carriers[i].ulclass > 0}) > 1

needsExtendedFormat(carriers) == \E i \in 1..Len(carriers) : carriers[i].ant # 2 /\ carriers[i].ant # 0

\* variant of needsFullFormat: full format only for a MIMO that does not fit one byte
needsFullFormat_overOneByte(carriers) == \E i \in 1..Len(carriers) : carriers[i].ant > 255

needsFullFormat(carriers) == \E i \in 1..Len(carriers) : carriers[i].ant > 4

determineMinimumFormat(carriers) ==
  IF needsFullFormat(carriers) THEN 333
  ELSE IF needsExtendedFormat(carriers) THEN 201
  ELSE 137

\* validation.valid of validateForEncoding
validateForEncoding(carriers) ==
  validateCombo(carriers, [maxCC |-> 6, maxDLCC |-> maxDLCC, maxULSCell |-> maxULSCell,
                           maxTotalUL |-> maxTotalUL, pcellIndex |-> 0, profile |-> <<>>,
                           allowFDDTDDMix |-> FALSE]).valid
  /\ ~(totalCC(carriers) > 6)

CarrierLess(a, b) == IF a.band # b.band THEN a.band < b.band ELSE a.bclass < b.bclass

normalizeCarriers(carriers) == StableSort(carriers, CarrierLess)

ZeroCarrier == [band |-> 0, bclass |-> 0, ant |-> 0, ulclass |-> 0]

padCarriers(carriers) == [i \in 1..6 |-> IF i <= Len(carriers) THEN carriers[i] ELSE ZeroCarrier]

\* variant of getDLKey: the uplink class is part of the key
getDLKey_withUplink(carriers) ==
  Join([i \in 1..6 |->
          LET c == IF i <= Len(carriers) THEN carriers[i] ELSE ZeroCarrier
          IN ToStr(c.band) \o <<ChColon>> \o ToStr(IF c.bclass # 0 THEN c.bclass ELSE 1)
             \o <<ChColon>> \o ToStr(c.ant) \o <<ChColon>> \o ToStr(c.ulclass)], ChBar)

\* combo.js getDLKey on legacy carriers
getDLKey(carriers) ==
  Join([i \in 1..6 |->
          LET c == IF i <= Len(carriers) THEN carriers[i] ELSE ZeroCarrier
          IN ToStr(c.band) \o <<ChColon>> \o ToStr(IF c.bclass # 0 THEN c.bclass ELSE 1)
             \o <<ChColon>> \o ToStr(c.ant)], ChBar)

\* the uplink carriers an uplink record is written from
ulCarriersOf(entry) ==
  LET all == Filter(padCarriers(entry.carriers), LAMBDA c : c.ulclass > 0)
  IN SubSeq(all, 1, IF Len(all) < maxTotalUL THEN Len(all) ELSE maxTotalUL)

allULOf(entry) == Filter(padCarriers(entry.carriers), LAMBDA c : c.ulclass > 0)

\* bytes of one (band, ulClass) pair of an uplink record, with its padding
writePair(tag, ulCarriers, k) ==
  (IF Len(ulCarriers) >= k
   THEN W16(ulCarriers[k].band) \o W8(ulCarriers[k].ulclass) \o (IF tag = 202 THEN W8(2) ELSE <<>>)
   ELSE <<0, 0, 0>> \o (IF tag = 202 THEN <<0>> ELSE <<>>))
  \o (IF tag = 334 THEN Zeros(8) ELSE <<>>)

\* bytes of one uplink record (138, 202 or 334)
writeULRecord(tag, entry) ==
  W16(tag) \o writePair(tag, ulCarriersOf(entry), 1) \o writePair(tag, ulCarriersOf(entry), 2)
  \o Zeros(TailPad(tag))

\* the 8 MIMO bytes of a 333 slot: the decimal digits of ant, then zeros
writeAnt(ant) ==
  LET antStr == ToStr(ant)
  IN [j \in 1..8 |-> IF j <= Len(antStr) THEN (antStr[j] - Ch0) % 256 ELSE 0]

\* bytes of one DL header (137, 201 or 333)
writeDLHeader(tag, band, bclass, ant) ==
  W16(tag) \o Flatten([i \in 1..6 |->
     W16(band[i]) \o W8(bclass[i])
     \o (IF tag = 201 THEN W8(ant[i]) ELSE IF tag = 333 THEN writeAnt(ant[i]) ELSE <<>>)])

TextLess(a, b) == localeCompare(a.text, b.text) < 0

sortedEntries(entries) == StableSort(entries, TextLess)

headerSize(descType) == IF descType = 137 THEN 20 ELSE IF descType = 201 THEN 26 ELSE 68

\* variant of recordSize: a 138 record counted as 22 bytes
recordSize_long138(descType) == IF descType = 137 THEN 22 ELSE IF descType = 201 THEN 26 ELSE 68

recordSize(descType) == IF descType = 137 THEN 20 ELSE IF descType = 201 THEN 26 ELSE 68

\* bytes of one encoding group: its DL header, then one uplink record per member sorted by text
writeGroup(g) ==
  IF g.descType \in {137, 201, 333}
  THEN writeDLHeader(g.descType, g.band, g.bclass, g.ant)
       \o Flatten([k \in 1..Len(g.entries) |-> writeULRecord(g.descType + 1, sortedEntries(g.entries)[k])])
  ELSE <<>>

groupSize(g) ==
  IF g.descType \in {137, 201, 333}
  THEN headerSize(g.descType) + Len(g.entries) * recordSize(g.descType)
  ELSE 0

\* allocation of totalSize bytes, then the sequence of writes: a write past the end throws
finishBuffer(strategy, groups, formatVersion, warnings) ==
  LET totalSize == 4 + SumSeq([k \in 1..Len(groups) |-> groupSize(groups[k])])
      numDescriptors == SumSeq([k \in 1..Len(groups) |->
                          IF groups[k].descType \in {137, 201, 333} THEN 1 + Len(groups[k].entries) ELSE 0])
      written == W16(formatVersion) \o W16(numDescriptors)
                 \o Flatten([k \in 1..Len(groups) |-> writeGroup(groups[k])])
  IN [ok |-> Len(written) <= totalSize,
      error |-> IF Len(written) <= totalSize THEN "" ELSE "RangeError",
      strategy |-> strategy,
      groups |-> groups,
      totalSize |-> totalSize,
      offset |-> Len(written),
      buffer |-> IF Len(written) <= totalSize THEN written \o Zeros(totalSize - Len(written)) ELSE <<>>,
      warnings |-> warnings]

EncodeFailure(strategy, message) ==
  [ok |-> FALSE, error |-> message, strategy |-> strategy, groups |-> <<>>, totalSize |-> 0,
   offset |-> 0, buffer |-> <<>>, warnings |-> {}]

\* distinct values of a sequence in order of first appearance (insertion order of a Map's keys)
DistinctInOrder(s) ==
  LET firsts == Filter([i \in 1..Len(s) |-> i], LAMBDA i : \A j \in 1..(i - 1) : s[j] # s[i])
  IN [k \in 1..Len(firsts) |-> s[firsts[k]]]

getDLKeyFromCarriers(carriers) ==
  LET padded == padCarriers(carriers)
  IN Join([i \in 1..6 |-> ToStr(padded[i].band) \o <<ChColon>> \o ToStr(padded[i].bclass)
                          \o <<ChColon>> \o ToStr(padded[i].ant)], ChBar)

\* variant of getGroupDLKey: the MIMO of the slots is left out of the key
getGroupDLKey_noMimo(group) ==
  Join([i \in 1..6 |-> ToStr(group.band[i]) \o <<ChColon>> \o ToStr(group.bclass[i])], ChBar)

getGroupDLKey(group) ==
  Join([i \in 1..6 |-> ToStr(group.band[i]) \o <<ChColon>> \o ToStr(group.bclass[i])
                       \o <<ChColon>> \o ToStr(group.ant[i])], ChBar)

\* first pass: the entries that carry the index of an original group, per original group
firstPass(encodeEntries, originalGroups) ==
  LET matching(g) == Filter(encodeEntries, LAMBDA e : e.groupIdx = g - 1)
      kept == Filter([g \in 1..Len(originalGroups) |-> g], LAMBDA g : matching(g) # <<>>)
  IN [k \in 1..Len(kept) |->
        [descType |-> originalGroups[kept[k]].descType,
         band |-> originalGroups[kept[k]].band,
         bclass |-> originalGroups[kept[k]].bclass,
         ant |-> originalGroups[kept[k]].ant,
         entries |-> matching(kept[k])]]

\* second pass: the remaining entries, key by key in insertion order
RECURSIVE secondPass(_, _, _)
secondPass(keys, remaining, encodingGroups) ==
  IF keys = <<>> THEN encodingGroups
  ELSE LET dlKey == Head(keys)
           entriesForKey == Filter(remaining, LAMBDA e : getDLKeyFromCarriers(e.carriers) = dlKey)
           hit == {g \in 1..Len(encodingGroups) : getGroupDLKey(encodingGroups[g]) = dlKey}
       IN IF hit # {}
          THEN LET g == CHOOSE x \in hit : \A y \in hit : x <= y
               IN secondPass(Tail(keys), remaining,
                             [encodingGroups EXCEPT ![g].entries = @ \o entriesForKey])
          ELSE LET padded == padCarriers(entriesForKey[1].carriers)
                   needsExt == \E i \in 1..6 :
                                 padded[i].ant # 2 /\ padded[i].ant # 0 /\ padded[i].band # 0
               IN secondPass(Tail(keys), remaining,
                             Append(encodingGroups,
                                    [descType |-> IF needsExt THEN 201 ELSE 137,
                                     band |-> [i \in 1..6 |-> padded[i].band],
                                     bclass |-> [i \in 1..6 |-> padded[i].bclass],
                                     ant |-> [i \in 1..6 |-> padded[i].ant],
                                     entries |-> entriesForKey]))

bandSignature(g) == Join([i \in 1..6 |-> ToStr(g.band[i])], ChColon)

GroupLess(a, b) == localeCompare(bandSignature(a), bandSignature(b)) < 0

\* the console.warn of the 137 and 201 branches for entries with more than maxTotalUL uplink carriers
truncationWarnings(groups) ==
  {[kind |-> "truncate", text |-> e.text] :
     e \in UNION {Range(Filter(groups[g].entries, LAMBDA x : Len(allULOf(x)) > maxTotalUL)) :
                    g \in {k \in 1..Len(groups) : groups[k].descType \in {137, 201}}}}

encodeWithOriginalGrouping(encodeEntries, formatVersion, originalGroups) ==
  IF Len(originalGroups) = 0 THEN EncodeFailure("A", "No original grouping data available")
  ELSE LET afterFirst == firstPass(encodeEntries, originalGroups)
           remaining == Filter(encodeEntries,
                               LAMBDA e : ~(e.groupIdx >= 0 /\ e.groupIdx < Len(originalGroups))
                                          /\ Len(e.carriers) > 0)
           keys == DistinctInOrder([i \in 1..Len(remaining) |-> getDLKeyFromCarriers(remaining[i].carriers)])
           encodingGroups == StableSort(secondPass(keys, remaining, afterFirst), GroupLess)
       IN finishBuffer("A", encodingGroups, formatVersion, truncationWarnings(encodingGroups))

\* groupByDL of encodeToBuffer: the member lists, one per group
groupByDL(entries, optimizeGrouping) ==
  IF ~optimizeGrouping THEN [i \in 1..Len(entries) |-> <<entries[i]>>]
  ELSE LET withCarriers == Filter(entries, LAMBDA e : Len(e.carriers) > 0)
           keyOf(e) == getDLKey(normalizeCarriers(e.carriers))
           keys == DistinctInOrder([i \in 1..Len(withCarriers) |-> keyOf(withCarriers[i])])
           sortedKeys == StableSort(keys, CodeUnitLess)
       IN [k \in 1..Len(sortedKeys) |-> Filter(withCarriers, LAMBDA e : keyOf(e) = sortedKeys[k])]

\* the groups of one width class as encodeToBuffer writes them
groupsOfType(descType, entries, optimizeGrouping) ==
  LET gs == groupByDL(entries, optimizeGrouping)
  IN [k \in 1..Len(gs) |->
        LET carriers == padCarriers(normalizeCarriers(gs[k][1].carriers))
        IN [descType |-> descType,
            band |-> [i \in 1..6 |-> carriers[i].band],
            bclass |-> [i \in 1..6 |-> carriers[i].bclass],
            ant |-> [i \in 1..6 |-> carriers[i].ant],
            entries |-> gs[k]]]

\* the console.warn of the validation loop of encodeToBuffer
validationWarnings(encodeEntries) ==
  {[kind |-> "validation", text |-> encodeEntries[i].text] :
     i \in {k \in 1..Len(encodeEntries) :
              Len(encodeEntries[k].carriers) > 0 /\ ~validateForEncoding(encodeEntries[k].carriers)}}

\* the width class encodeToBuffer puts an entry in
classify(entry, descriptorType, autoDescriptorType) ==
  IF ~autoDescriptorType THEN (IF descriptorType = 137 THEN 137 ELSE IF descriptorType = 333 THEN 333 ELSE 201)
  ELSE LET minFormat == determineMinimumFormat(entry.carriers)
       IN IF minFormat = 333 THEN 333
          ELSE IF minFormat = 201 \/ needsExtendedFormat(entry.carriers) THEN 201
          ELSE 137

\* variant of encodeToBuffer: preserve-original-grouping always goes to encodeWithOriginalGrouping
encodeToBuffer_strictPreserve(args) ==
  IF Len(args.encodeEntries) = 0 THEN EncodeFailure("none", "No entries to encode")
  ELSE IF args.preserveOriginalGrouping
  THEN encodeWithOriginalGrouping(args.encodeEntries, args.formatVersion, args.originalGroups)
  ELSE LET considered == IF args.autoDescriptorType
                         THEN Filter(args.encodeEntries, LAMBDA e : Len(e.carriers) > 0)
                         ELSE args.encodeEntries
           ofType(t) == Filter(considered,
                               LAMBDA e : classify(e, args.descriptorType, args.autoDescriptorType) = t)
           groups == groupsOfType(137, ofType(137), args.optimizeGrouping)
                     \o groupsOfType(201, ofType(201), args.optimizeGrouping)
                     \o groupsOfType(333, ofType(333), args.optimizeGrouping)
       IN finishBuffer(IF args.autoDescriptorType THEN "B" ELSE "C", groups, args.formatVersion,
                       validationWarnings(args.encodeEntries))

encodeToBuffer(args) ==
  IF Len(args.encodeEntries) = 0 THEN EncodeFailure("none", "No entries to encode")
  ELSE IF args.preserveOriginalGrouping /\ Len(args.originalGroups) > 0
  THEN encodeWithOriginalGrouping(args.encodeEntries, args.formatVersion, args.originalGroups)
  ELSE LET considered == IF args.autoDescriptorType
                         THEN Filter(args.encodeEntries, LAMBDA e : Len(e.carriers) > 0)
                         ELSE args.encodeEntries
           ofType(t) == Filter(considered,
                               LAMBDA e : classify(e, args.descriptorType, args.autoDescriptorType) = t)
           groups == groupsOfType(137, ofType(137), args.optimizeGrouping)
                     \o groupsOfType(201, ofType(201), args.optimizeGrouping)
                     \o groupsOfType(333, ofType(333), args.optimizeGrouping)
       IN finishBuffer(IF args.autoDescriptorType THEN "B" ELSE "C", groups, args.formatVersion,
                       validationWarnings(args.encodeEntries))

\* ------------------------------------------------------------- application
VARIABLES
  file,                      \* the file at hand: the one dropped on the decoder, or the last export
  decodeResults,             \* <<>> (null) or <<result of decodeFile>>
  decodeError,               \* message of a decodeFile that threw, or ""
  encodeEntries,             \* rows of the encoder table
  originalGroups,            \* groups stored from the decoder (<<>> is null)
  formatVersion,
  descriptorType,
  optimizeGrouping,
  autoDescriptorType,
  preserveOriginalGrouping,
  recalculateStreams,
  exported,                  \* <<>> or <<result of the last encodeToBuffer>>
  job,                       \* <<>> or <<arguments of the last encodeToBuffer>>
  origin,                    \* <<>> or <<file and decode result of the last transferToEncoder>>
  cut,                       \* <<>> or <<the whole file and the length kept>> once the file was cut short
  validationInput,           \* <<>> or <<carriers and options handed to validateCombo>>
  validation,                \* <<>> or <<result of validateCombo>>
  comboInput,                \* <<>> or <<a combo and a reordering of its carriers>>
  normalized,                \* <<>> or <<result of normalizeCombo>>
  equal                      \* <<>> or <<result of combosEqual>>

vars == <<file, decodeResults, decodeError, encodeEntries, originalGroups, formatVersion,
          descriptorType, optimizeGrouping, autoDescriptorType, preserveOriginalGrouping,
          recalculateStreams, exported, job, origin, cut, validationInput, validation,
          comboInput, normalized, equal>>

validationVars == <<validationInput, validation>>

comboVars == <<comboInput, normalized, equal>>

settingsVars == <<formatVersion, descriptorType, optimizeGrouping, autoDescriptorType,
                  preserveOriginalGrouping, recalculateStreams>>

\* one row of parseComboFile
entryFromLine(text, fileStreams, fileHasULCA, shouldRecalculate) ==
  LET carriers == parseComboString(text).carriers
  IN [text |-> text, carriers |-> carriers,
      streams |-> IF shouldRecalculate THEN calculateStreams(carriers) ELSE fileStreams,
      hasULCA |-> IF shouldRecalculate THEN checkHasULCA(carriers) ELSE fileHasULCA,
      groupIdx |-> -1]

\* the rows transferToEncoder builds from the decoded combos (a combo whose text does not parse is dropped)
transferEntries(result, recalc) ==
  LET parsed == [i \in 1..Len(result.combos) |-> parseComboString(result.combos[i].text)]
      kept == Filter([i \in 1..Len(result.combos) |-> i], LAMBDA i : parsed[i].ok)
  IN [k \in 1..Len(kept) |->
        LET combo == result.combos[kept[k]]
            carriers == parsed[kept[k]].carriers
        IN [text |-> combo.text, carriers |-> carriers,
            streams |-> IF recalc THEN calculateStreams(carriers) ELSE combo.streams,
            hasULCA |-> IF recalc THEN checkHasULCA(carriers) ELSE combo.hasULCA,
            groupIdx |-> combo.groupIdx]]

encodeArgs ==
  [encodeEntries |-> encodeEntries, formatVersion |-> formatVersion, descriptorType |-> descriptorType,
   optimizeGrouping |-> optimizeGrouping, autoDescriptorType |-> autoDescriptorType,
   preserveOriginalGrouping |-> preserveOriginalGrouping, originalGroups |-> originalGroups]

\* a file is read and decoded
handleDecodeFile ==
  /\ file # <<>>
  /\ LET result == decodeFile(file)
     IN IF result.threw
        THEN /\ decodeResults' = <<>>
             /\ decodeError' = "Failed to decompress file"
        ELSE /\ decodeResults' = <<result>>
             /\ decodeError' = ""
  /\ UNCHANGED <<file, encodeEntries, originalGroups, settingsVars, exported, job, origin, cut, validationVars, comboVars>>

transferToEncoder ==
  /\ decodeResults # <<>>
  /\ Len(decodeResults[1].combos) > 0
  /\ LET result == decodeResults[1]
         stats == result.descriptorStats
         has137 == stats[137] > 0 \/ stats[138] > 0
         has201 == stats[201] > 0 \/ stats[202] > 0
     IN /\ originalGroups' = result.groups
        /\ preserveOriginalGrouping' = (Len(result.groups) > 0)
        /\ autoDescriptorType' = (has137 /\ has201)
        /\ descriptorType' = IF has137 /\ has201 THEN descriptorType ELSE IF has201 THEN 201 ELSE 137
        /\ formatVersion' = result.formatVersion
        /\ encodeEntries' = transferEntries(result, recalculateStreams)
        /\ origin' = <<[file |-> file, result |-> result]>>
  /\ UNCHANGED <<file, decodeResults, decodeError, optimizeGrouping, recalculateStreams, exported, job, cut, validationVars, comboVars>>

\* the encoder table is encoded and the buffer is saved as a file
handleEncodeExport ==
  /\ LET result == encodeToBuffer(encodeArgs)
     IN /\ exported' = <<result>>
        /\ job' = <<encodeArgs>>
        /\ file' = IF result.ok THEN result.buffer ELSE file
        /\ cut' = IF result.ok THEN <<>> ELSE cut
  /\ UNCHANGED <<decodeResults, decodeError, encodeEntries, originalGroups, settingsVars, origin, validationVars, comboVars>>

Next == handleDecodeFile \/ transferToEncoder \/ handleEncodeExport

\* ------------------------------------------------------------------ inputs
Carrier(band, bclass, ant, ulclass) == [band |-> band, bclass |-> bclass, ant |-> ant, ulclass |-> ulclass]

\* a combo as a user writes it: <band><class>[<mimo>][<ulclass>] joined by '-'
comboText(carriers) ==
  Join([i \in 1..Len(carriers) |->
          ToStr(carriers[i].band) \o <<carriers[i].bclass + 64>> \o ToStr(carriers[i].ant)
          \o (IF carriers[i].ulclass # 0 THEN <<carriers[i].ulclass + 64>> ELSE <<>>)], ChDash)

lineEntry(carriers) ==
  entryFromLine(comboText(carriers), calculateStreams(carriers), checkHasULCA(carriers), FALSE)

CarrierPool == {Carrier(3, 1, 2, 0), Carrier(3, 1, 2, 1), Carrier(7, 2, 4, 1)}

CombosUpTo(pool, n) == UNION {[1..k -> pool] : k \in 1..n}

EntryListsUpTo(combos, n) == UNION {[1..k -> {lineEntry(c) : c \in combos}] : k \in 0..n}

\* flag combinations of the encoder panel
FlagSets ==
  {[auto |-> TRUE, type |-> 201, optimize |-> o, preserve |-> p] : o \in BOOLEAN, p \in BOOLEAN}
  \cup {[auto |-> FALSE, type |-> t, optimize |-> o, preserve |-> FALSE] :
          t \in {137, 201, 333}, o \in BOOLEAN}

FormatVersions == {7}

InitTable(entries, flags, fv) ==
  /\ file = <<>>
  /\ decodeResults = <<>>
  /\ decodeError = ""
  /\ encodeEntries = entries
  /\ originalGroups = <<>>
  /\ formatVersion = fv
  /\ descriptorType = flags.type
  /\ optimizeGrouping = flags.optimize
  /\ autoDescriptorType = flags.auto
  /\ preserveOriginalGrouping = flags.preserve
  /\ recalculateStreams = FALSE
  /\ exported = <<>>
  /\ job = <<>>
  /\ origin = <<>>
  /\ cut = <<>>
  /\ validationInput = <<>>
  /\ validation = <<>>
  /\ comboInput = <<>>
  /\ normalized = <<>>
  /\ equal = <<>>

\* a combo text file was loaded into the encoder table and the flags were set
Init ==
  \E entries \in EntryListsUpTo(CombosUpTo(CarrierPool, MaxCarriers), MaxEntries),
     flags \in FlagSets, fv \in FormatVersions :
    InitTable(entries, flags, fv)

Spec == Init /\ [][Next]_vars

\* MIMO values of at most MaxDigits decimal digits
MimoValues == 0..((10 ^ MaxDigits) - 1)

MimoCombos ==
  {<<Carrier(3, 1, m, 1)>> : m \in MimoValues}
  \cup {<<Carrier(1, 1, k, 0), Carrier(3, 1, m, 1)>> : k \in {2, 4}, m \in MimoValues}

MimoFlagSets ==
  {[auto |-> TRUE, type |-> 201, optimize |-> TRUE, preserve |-> FALSE],
   [auto |-> FALSE, type |-> 333, optimize |-> TRUE, preserve |-> FALSE]}

\* a one-line combo text file whose last carrier has an arbitrary MIMO value
InitMimo ==
  \E c \in MimoCombos, flags \in MimoFlagSets, fv \in FormatVersions :
    InitTable(<<lineEntry(c)>>, flags, fv)

SpecMimo == InitMimo /\ [][Next]_vars

\* bytes of a descriptor, tag included
DescriptorLength(tag) == IF tag \in {137, 138} THEN 20 ELSE IF tag \in {201, 202} THEN 26 ELSE 68

RawDescriptor(tag, body) == W16(tag) \o body \o Zeros(DescriptorLength(tag) - 2 - Len(body))

\* pieces a binary file is made of: a descriptor, or a DL header with one uplink record
FilePieces ==
  {[count |-> 1, bytes |-> RawDescriptor(137, <<7, 0, 1>>)],
   [count |-> 2, bytes |-> RawDescriptor(137, <<3, 0, 1, 7, 0, 1>>) \o RawDescriptor(138, <<3, 0, 1>>)],
   [count |-> 2, bytes |-> RawDescriptor(201, <<3, 0, 1, 4>>) \o RawDescriptor(202, <<3, 0, 1, 2>>)],
   [count |-> 2, bytes |-> RawDescriptor(333, <<7, 0, 1, 8>>) \o RawDescriptor(334, <<7, 0, 1>>)],
   [count |-> 1, bytes |-> RawDescriptor(138, <<7, 0, 1>>)],
   [count |-> 1, bytes |-> RawDescriptor(138, <<7, 0, 1, 3, 0, 1>>)],
   [count |-> 1, bytes |-> RawDescriptor(138, <<0, 0, 1, 7, 0, 1>>)],
   [count |-> 2, bytes |-> RawDescriptor(201, <<3, 0, 1, 0>>) \o RawDescriptor(202, <<3, 0, 1>>)],
   [count |-> 2, bytes |-> RawDescriptor(137, <<5, 0, 0>>) \o RawDescriptor(138, <<5, 0, 1>>)],
   [count |-> 1, bytes |-> W16(999)],
   [count |-> 1, bytes |-> RawDescriptor(137, <<>>)]}

FileOf(pieces, fv) ==
  W16(fv) \o W16(SumSeq([i \in 1..Len(pieces) |-> pieces[i].count]))
  \o Flatten([i \in 1..Len(pieces) |-> pieces[i].bytes])

FilesUpTo(n) == {FileOf(pieces, fv) : pieces \in UNION {[1..k -> FilePieces] : k \in 0..n}, fv \in FormatVersions}

\* the application as it starts, with a binary file at hand
InitApp(f) ==
  /\ file = f
  /\ decodeResults = <<>>
  /\ decodeError = ""
  /\ encodeEntries = <<>>
  /\ originalGroups = <<>>
  /\ formatVersion = 7
  /\ descriptorType = 201
  /\ optimizeGrouping = TRUE
  /\ autoDescriptorType = TRUE
  /\ preserveOriginalGrouping = FALSE
  /\ recalculateStreams = FALSE
  /\ exported = <<>>
  /\ job = <<>>
  /\ origin = <<>>
  /\ cut = <<>>
  /\ validationInput = <<>>
  /\ validation = <<>>
  /\ comboInput = <<>>
  /\ normalized = <<>>
  /\ equal = <<>>

InitFile == \E f \in FilesUpTo(MaxPieces) : InitApp(f)

SpecFile == InitFile /\ [][Next]_vars

\* the file at hand loses its end (a partial copy): only the first t bytes remain
truncateFile ==
  /\ cut = <<>>
  /\ exported = <<>>
  /\ decodeResults = <<>>
  /\ \E t \in 0..(Len(file) - 1) :
       /\ file' = SubSeq(file, 1, t)
       /\ cut' = <<[full |-> file, at |-> t]>>
  /\ UNCHANGED <<decodeResults, decodeError, encodeEntries, originalGroups, settingsVars, exported, job, origin, validationVars, comboVars>>

NextCut == truncateFile \/ handleDecodeFile

InitCut == \E f \in FilesUpTo(MaxCutPieces) : InitApp(f)

SpecCut == InitCut /\ [][NextCut]_vars

\* a row of the encoder table is edited: the new text replaces its carriers when it parses
updateEntryText(index, newText) ==
  /\ index \in 1..Len(encodeEntries)
  /\ LET parsed == parseComboString(newText)
     IN encodeEntries' =
          [encodeEntries EXCEPT ![index] =
             IF parsed.ok
             THEN [@ EXCEPT !.text = newText, !.carriers = parsed.carriers,
                            !.streams = calculateStreams(parsed.carriers),
                            !.hasULCA = checkHasULCA(parsed.carriers)]
             ELSE [@ EXCEPT !.text = newText]]
  /\ exported' = <<>>
  /\ job' = <<>>
  /\ UNCHANGED <<file, decodeResults, decodeError, originalGroups, settingsVars, origin, cut, validationVars, comboVars>>

\* texts typed into a row: three uplink carriers (one with MIMO 8), a text that does not parse,
\* and a text that parses to no carrier at all
EditTexts ==
  {comboText(<<Carrier(1, 1, 8, 1), Carrier(3, 1, 2, 1), Carrier(7, 1, 2, 1)>>),
   <<Ch0 + 3>>,
   <<ChDash>>}

editEntry == \E index \in 1..Len(encodeEntries), newText \in EditTexts : updateEntryText(index, newText)

NextEdit == editEntry \/ handleEncodeExport

\* groups of three carriers, one per descriptor width, each with one member
EditPieces ==
  {[count |-> 2, bytes |-> RawDescriptor(137, <<1, 0, 1, 3, 0, 1, 7, 0, 1>>) \o RawDescriptor(138, <<1, 0, 1>>)],
   [count |-> 2, bytes |-> RawDescriptor(201, <<1, 0, 1, 4, 3, 0, 1, 2, 7, 0, 1, 2>>)
                           \o RawDescriptor(202, <<1, 0, 1, 2>>)],
   [count |-> 2, bytes |-> RawDescriptor(333, <<1, 0, 1, 8, 0, 0, 0, 0, 0, 0, 0>> \o <<3, 0, 1, 2, 0, 0, 0, 0, 0, 0, 0>>
                                              \o <<7, 0, 1, 2>>)
                           \o RawDescriptor(334, <<1, 0, 1>>)]}

EditFiles == {FileOf(pieces, 7) : pieces \in UNION {[1..k -> EditPieces] : k \in 1..MaxEditPieces}}

EditFlagSets ==
  {[auto |-> TRUE, type |-> 201, optimize |-> TRUE, preserve |-> TRUE],
   [auto |-> TRUE, type |-> 201, optimize |-> TRUE, preserve |-> FALSE],
   [auto |-> FALSE, type |-> 137, optimize |-> TRUE, preserve |-> FALSE],
   [auto |-> FALSE, type |-> 201, optimize |-> FALSE, preserve |-> FALSE],
   [auto |-> FALSE, type |-> 333, optimize |-> TRUE, preserve |-> FALSE]}

\* a binary file was decoded and transferred to the encoder table, and the encoder settings were chosen
InitEdit ==
  \E f \in EditFiles, flags \in EditFlagSets :
    LET result == decodeFile(f)
    IN /\ file = f
       /\ decodeResults = <<result>>
       /\ decodeError = ""
       /\ encodeEntries = transferEntries(result, FALSE)
       /\ originalGroups = result.groups
       /\ formatVersion = result.formatVersion
       /\ descriptorType = flags.type
       /\ optimizeGrouping = flags.optimize
       /\ autoDescriptorType = flags.auto
       /\ preserveOriginalGrouping = flags.preserve
       /\ recalculateStreams = FALSE
       /\ exported = <<>>
       /\ job = <<>>
       /\ origin = <<[file |-> f, result |-> result]>>
       /\ cut = <<>>
       /\ validationInput = <<>>
       /\ validation = <<>>
       /\ comboInput = <<>>
       /\ normalized = <<>>
       /\ equal = <<>>

SpecEdit == InitEdit /\ [][NextEdit]_vars

\* ------------------------------------------ rows added after a transfer
MaxRows == 2

\* a blank row is added to the encoder table
addNewEntry ==
  /\ Len(encodeEntries) < MaxRows
  /\ encodeEntries' = Append(encodeEntries,
                             [text |-> <<>>, carriers |-> <<>>, streams |-> 0, hasULCA |-> FALSE,
                              groupIdx |-> -1])
  /\ exported' = <<>>
  /\ job' = <<>>
  /\ UNCHANGED <<file, decodeResults, decodeError, originalGroups, settingsVars, origin, cut, validationVars, comboVars>>

deleteEntry ==
  \E index \in 1..Len(encodeEntries) :
    /\ encodeEntries' = [k \in 1..(Len(encodeEntries) - 1) |->
                           IF k < index THEN encodeEntries[k] ELSE encodeEntries[k + 1]]
    /\ exported' = <<>>
    /\ job' = <<>>
    /\ UNCHANGED <<file, decodeResults, decodeError, originalGroups, settingsVars, origin, cut, validationVars, comboVars>>

\* a combo text file was read: newEntries is what parseComboFile made of it
handleEncodeFile(newEntries, append) ==
  /\ Len(newEntries) > 0
  /\ IF append
     THEN /\ encodeEntries' = encodeEntries \o newEntries
          /\ UNCHANGED originalGroups
     ELSE /\ encodeEntries' = newEntries
          /\ originalGroups' = <<>>
  /\ exported' = <<>>
  /\ job' = <<>>
  /\ UNCHANGED <<file, decodeResults, decodeError, settingsVars, origin, cut, validationVars, comboVars>>

\* combos of the one-line text files that are appended
AppendCombos ==
  {<<Carrier(3, 1, 2, 0)>>, <<Carrier(3, 1, 4, 1)>>, <<Carrier(3, 1, 0, 0)>>, <<Carrier(7, 1, 8, 1)>>}

appendFile ==
  \E c \in AppendCombos :
    /\ Len(encodeEntries) < MaxRows
    /\ handleEncodeFile(<<entryFromLine(comboText(c), calculateStreams(c), checkHasULCA(c),
                                        recalculateStreams)>>, TRUE)

NextAppend == addNewEntry \/ deleteEntry \/ appendFile \/ handleEncodeExport

\* one group with one member: a 137 group and a 201 group
AppendPieces ==
  {[count |-> 2, bytes |-> RawDescriptor(137, <<3, 0, 1>>) \o RawDescriptor(138, <<3, 0, 1>>)],
   [count |-> 2, bytes |-> RawDescriptor(201, <<3, 0, 1, 4>>) \o RawDescriptor(202, <<3, 0, 1, 2>>)]}

AppendFiles == {FileOf(<<piece>>, 7) : piece \in AppendPieces}

AppendFlagSets ==
  {[auto |-> TRUE, type |-> 201, optimize |-> TRUE, preserve |-> TRUE],
   [auto |-> TRUE, type |-> 201, optimize |-> TRUE, preserve |-> FALSE],
   [auto |-> FALSE, type |-> 201, optimize |-> FALSE, preserve |-> FALSE]}

\* a binary file was decoded and transferred to the encoder table, and the encoder settings were chosen
InitAppend ==
  \E f \in AppendFiles, flags \in AppendFlagSets :
    LET result == decodeFile(f)
    IN /\ file = f
       /\ decodeResults = <<result>>
       /\ decodeError = ""
       /\ encodeEntries = transferEntries(result, FALSE)
       /\ originalGroups = result.groups
       /\ formatVersion = result.formatVersion
       /\ descriptorType = flags.type
       /\ optimizeGrouping = flags.optimize
       /\ autoDescriptorType = flags.auto
       /\ preserveOriginalGrouping = flags.preserve
       /\ recalculateStreams = FALSE
       /\ exported = <<>>
       /\ job = <<>>
       /\ origin = <<[file |-> f, result |-> result]>>
       /\ cut = <<>>
       /\ validationInput = <<>>
       /\ validation = <<>>
       /\ comboInput = <<>>
       /\ normalized = <<>>
       /\ equal = <<>>

SpecAppend == InitAppend /\ [][NextAppend]_vars

\* ------------------------------------------------- the operations of the encoder table
updateEntryStreams(index, newStreams) ==
  /\ index \in 1..Len(encodeEntries)
  /\ encodeEntries' = [encodeEntries EXCEPT ![index].streams = ParseInt(newStreams)]
  /\ exported' = <<>>
  /\ job' = <<>>
  /\ UNCHANGED <<file, decodeResults, decodeError, originalGroups, settingsVars, origin, cut, validationVars, comboVars>>

updateEntryULCA(index, hasULCA) ==
  /\ index \in 1..Len(encodeEntries)
  /\ encodeEntries' = [encodeEntries EXCEPT ![index].hasULCA = hasULCA]
  /\ exported' = <<>>
  /\ job' = <<>>
  /\ UNCHANGED <<file, decodeResults, decodeError, originalGroups, settingsVars, origin, cut, validationVars, comboVars>>

recalculateAllStreams ==
  /\ encodeEntries' =
       [i \in 1..Len(encodeEntries) |->
          IF Len(encodeEntries[i].carriers) > 0
          THEN [encodeEntries[i] EXCEPT !.streams = calculateStreams(encodeEntries[i].carriers),
                                        !.hasULCA = checkHasULCA(encodeEntries[i].carriers)]
          ELSE encodeEntries[i]]
  /\ exported' = <<>>
  /\ job' = <<>>
  /\ UNCHANGED <<file, decodeResults, decodeError, originalGroups, settingsVars, origin, cut, validationVars, comboVars>>

\* what is typed into the streams field: nothing, or 4
StreamsTexts == {<<>>, <<Ch0 + 4>>}

editStreams ==
  \E index \in 1..Len(encodeEntries), newStreams \in StreamsTexts : updateEntryStreams(index, newStreams)

toggleULCA ==
  \E index \in 1..Len(encodeEntries) : updateEntryULCA(index, ~encodeEntries[index].hasULCA)

\* a one-line combo text file replaces the table
loadFile ==
  \E c \in AppendCombos :
    handleEncodeFile(<<entryFromLine(comboText(c), calculateStreams(c), checkHasULCA(c),
                                     recalculateStreams)>>, FALSE)

NextRows ==
  \/ addNewEntry
  \/ editEntry
  \/ editStreams
  \/ toggleULCA
  \/ deleteEntry
  \/ recalculateAllStreams
  \/ appendFile
  \/ loadFile

\* the encoder panel as it opens: an empty table, automatic type, grouping on
InitRows == InitTable(<<>>, [auto |-> TRUE, type |-> 201, optimize |-> TRUE, preserve |-> FALSE], 7)

SpecRows == InitRows /\ [][NextRows]_vars

\* ------------------------------------------------- validateCombo on its own
\* validateCombo is applied to the carriers and options at hand
validate ==
  /\ validationInput # <<>>
  /\ validation = <<>>
  /\ validation' = <<validateCombo(validationInput[1].carriers, validationInput[1].options)>>
  /\ UNCHANGED <<file, decodeResults, decodeError, encodeEntries, originalGroups, settingsVars,
                 exported, job, origin, cut, validationInput, comboVars>>

NextValidate == validate

MaxValidated == 3

ValidatedPool ==
  {Carrier(3, 1, 2, 1), Carrier(3, 1, 2, 0), Carrier(66, 1, 8, 1), Carrier(66, 1, 4, 0), Carrier(14, 1, 2, 1)}

ValidatedProfiles == {<<>>, <<GenericCat6>>, <<GenericCat18>>, <<MiFi8800L>>}

ValidateOptions ==
  {[maxCC |-> MAX_CC, maxDLCC |-> maxDLCC, maxULSCell |-> u, maxTotalUL |-> maxTotalUL,
    pcellIndex |-> p, profile |-> pr, allowFDDTDDMix |-> FALSE] :
     u \in 0..2, p \in 0..(MaxValidated - 1), pr \in ValidatedProfiles}

InitValidate ==
  \E carriers \in {<<>>} \cup CombosUpTo(ValidatedPool, MaxValidated), options \in ValidateOptions :
    /\ file = <<>>
    /\ decodeResults = <<>>
    /\ decodeError = ""
    /\ encodeEntries = <<>>
    /\ originalGroups = <<>>
    /\ formatVersion = 7
    /\ descriptorType = 201
    /\ optimizeGrouping = TRUE
    /\ autoDescriptorType = TRUE
    /\ preserveOriginalGrouping = FALSE
    /\ recalculateStreams = FALSE
    /\ exported = <<>>
    /\ job = <<>>
    /\ origin = <<>>
    /\ cut = <<>>
    /\ validationInput = <<[carriers |-> carriers, options |-> options]>>
    /\ validation = <<>>
    /\ comboInput = <<>>
    /\ normalized = <<>>
    /\ equal = <<>>

SpecValidate == InitValidate /\ [][NextValidate]_vars

\* ------------------------------------------------- format versions of the whole range
\* values of the format version field: the default, the ends of the range, and the values
\* whose two little-endian bytes are 0x78 followed by 0x01, 0x5E, 0x9C or 0xDA
VersionPool == {0, 7, 376, 24184, 40056, 55928, 65535}

VersionEntryLists == {<<>>} \cup {<<lineEntry(<<c>>)>> : c \in CarrierPool}

\* a one-line combo text file was loaded into the encoder table, the flags and the version were set
InitVersion ==
  \E entries \in VersionEntryLists, flags \in FlagSets, fv \in VersionPool :
    InitTable(entries, flags, fv)

SpecVersion == InitVersion /\ [][Next]_vars

\* ------------------------------------------------- combo.js on its own
\* a carrier of combo.js: band, DL class letter, DL MIMO, UL class letter (0 for null), UL MIMO
createCarrier(band, dlClass, mimoDl, ulClass) ==
  [band |-> band, dlClass |-> ToUpper(dlClass), mimoDl |-> mimoDl,
   ulClass |-> IF ulClass # 0 THEN ToUpper(ulClass) ELSE 0, mimoUl |-> 1]

\* pcellIndex is <<>> for null and <<i>> for the 0-based index i
createCombo(carriers, pcellIndex) == [carriers |-> carriers, pcellIndex |-> pcellIndex]

classLetterToNum(classLetter) ==
  LET code == ToUpper(classLetter) - 64
  IN IF code >= 1 /\ code <= 26 THEN code ELSE 1

sortCarriersByBand(carriers) ==
  StableSort(carriers, LAMBDA a, b :
    IF a.band # b.band THEN a.band < b.band
    ELSE classLetterToNum(a.dlClass) < classLetterToNum(b.dlClass))

normalizeCombo(c) ==
  LET pcellCarrier == IF c.pcellIndex # <<>> /\ c.pcellIndex[1] < Len(c.carriers)
                      THEN <<c.carriers[c.pcellIndex[1] + 1]>> ELSE <<>>
      sortedCarriers == sortCarriersByBand(c.carriers)
      found == {i \in 1..Len(sortedCarriers) :
                  /\ pcellCarrier # <<>>
                  /\ sortedCarriers[i].band = pcellCarrier[1].band
                  /\ sortedCarriers[i].dlClass = pcellCarrier[1].dlClass
                  /\ sortedCarriers[i].mimoDl = pcellCarrier[1].mimoDl}
      newPcellIndex == IF found = {} THEN <<>>
                       ELSE <<(CHOOSE i \in found : \A j \in found : i <= j) - 1>>
  IN createCombo(sortedCarriers, newPcellIndex)

getComboKey(c) ==
  LET sorted == sortCarriersByBand(c.carriers)
  IN Join([i \in 1..Len(sorted) |->
             ToStr(sorted[i].band) \o <<ChColon>> \o ToStr(classLetterToNum(sorted[i].dlClass))
             \o <<ChColon>> \o ToStr(sorted[i].mimoDl)], ChBar)

combosEqual(combo1, combo2) == getComboKey(combo1) = getComboKey(combo2)

\* normalizeCombo is applied to the combo at hand
normalize ==
  /\ comboInput # <<>>
  /\ normalized = <<>>
  /\ normalized' = <<normalizeCombo(comboInput[1].combo)>>
  /\ UNCHANGED <<file, decodeResults, decodeError, encodeEntries, originalGroups, settingsVars,
                 exported, job, origin, cut, validationVars, comboInput, equal>>

\* combosEqual is applied to the combo at hand and a reordering of it
compare ==
  /\ comboInput # <<>>
  /\ equal = <<>>
  /\ equal' = <<combosEqual(comboInput[1].combo, comboInput[1].reordered)>>
  /\ UNCHANGED <<file, decodeResults, decodeError, encodeEntries, originalGroups, settingsVars,
                 exported, job, origin, cut, validationVars, comboInput, normalized>>

NextCombo == normalize \/ compare

MaxComboCarriers == 3

ComboCarrierPool ==
  {createCarrier(3, 65, 2, 0), createCarrier(3, 65, 4, 0), createCarrier(3, 65, 2, 65),
   createCarrier(1, 67, 2, 0)}

ComboCarriers ==
  UNION {[1..n -> ComboCarrierPool] : n \in 1..MaxComboCarriers}

InitCombo ==
  \E carriers \in ComboCarriers :
  \E pcellIndex \in {<<>>} \cup {<<i>> : i \in 0..(Len(carriers) - 1)} :
  \E reordered \in Orderings(carriers) :
    /\ file = <<>>
    /\ decodeResults = <<>>
    /\ decodeError = ""
    /\ encodeEntries = <<>>
    /\ originalGroups = <<>>
    /\ formatVersion = 7
    /\ descriptorType = 201
    /\ optimizeGrouping = TRUE
    /\ autoDescriptorType = TRUE
    /\ preserveOriginalGrouping = FALSE
    /\ recalculateStreams = FALSE
    /\ exported = <<>>
    /\ job = <<>>
    /\ origin = <<>>
    /\ cut = <<>>
    /\ validationInput = <<>>
    /\ validation = <<>>
    /\ comboInput = <<[combo |-> createCombo(carriers, pcellIndex),
                  reordered |-> createCombo(reordered, <<>>)]>>
    /\ normalized = <<>>
    /\ equal = <<>>

SpecCombo == InitCombo /\ [][NextCombo]_vars

\* ------------------------------------------------------------------ claims
\* multiset of the values of a sequence
BagOf(s) == [x \in Range(s) |-> Cardinality({i \in 1..Len(s) : s[i] = x})]

\* (band, class, mimo) of the carriers of an entry, with streams and hasULCA computed from them
entryTuple(e) ==
  [dl |-> BagOf([i \in 1..Len(e.carriers) |->
                   <<e.carriers[i].band, e.carriers[i].bclass, e.carriers[i].ant>>]),
   streams |-> calculateStreams(e.carriers),
   hasULCA |-> checkHasULCA(e.carriers)]

\* (band, class, mimo) of the carriers of a decoded combo, with its streams and hasULCA
comboTuple(c) ==
  LET slots == NonZeroSlots(c.rawBand)
  IN [dl |-> BagOf([k \in 1..Len(slots) |->
                      <<c.rawBand[slots[k]], c.rawBclass[slots[k]], c.rawAnt[slots[k]]>>]),
      streams |-> c.streams,
      hasULCA |-> c.hasULCA]

\* the carriers C1 ranges over
RoundTripDomain(entries) ==
  /\ Len(entries) > 0
  /\ \A i \in 1..Len(entries) :
       /\ Len(entries[i].carriers) > 0
       /\ totalCC(entries[i].carriers) <= 6
       /\ \A k \in 1..Len(entries[i].carriers) :
            /\ entries[i].carriers[k].band >= 1
            /\ entries[i].carriers[k].bclass \in 1..6
            /\ entries[i].carriers[k].ant \in {2, 4}

StrategyBJob ==
  /\ job # <<>>
  /\ exported # <<>>
  /\ job[1].autoDescriptorType
  /\ job[1].optimizeGrouping
  /\ ~job[1].preserveOriginalGrouping
  /\ job[1].originalGroups = <<>>
  /\ RoundTripDomain(job[1].encodeEntries)

\* C1: under strategy B with grouping, encodeToBuffer then decodeFile records no error and
\* returns the same multiset of (carriers, streams, hasULCA) as the entries that were encoded
C1_RoundTripB ==
  StrategyBJob =>
    /\ exported[1].ok
    /\ LET r == decodeFile(exported[1].buffer)
       IN /\ r.errors = <<>>
          /\ ~r.threw
          /\ BagOf([i \in 1..Len(r.combos) |-> comboTuple(r.combos[i])])
             = BagOf([i \in 1..Len(job[1].encodeEntries) |-> entryTuple(job[1].encodeEntries[i])])

WireHeaderSize(t) == IF t = 137 THEN 20 ELSE IF t = 201 THEN 26 ELSE 68
WireRecordSize(t) == IF t = 137 THEN 20 ELSE IF t = 201 THEN 26 ELSE 68

\* C7: the buffer of a successful encode is exactly 4 bytes plus, per emitted group, its header
\* and one record per member, and the write cursor ends exactly at the end of the buffer
C7_ExactBufferSize ==
  (exported # <<>> /\ exported[1].ok) =>
    /\ Len(exported[1].buffer)
         = 4 + SumSeq([g \in 1..Len(exported[1].groups) |->
                         WireHeaderSize(exported[1].groups[g].descType)
                         + Len(exported[1].groups[g].entries)
                           * WireRecordSize(exported[1].groups[g].descType)])
    /\ exported[1].offset = Len(exported[1].buffer)
    /\ exported[1].totalSize = Len(exported[1].buffer)

C7_Witness ==
  /\ exported # <<>>
  /\ exported[1].ok
  /\ exported[1].strategy = "A"
  /\ \E g \in 1..Len(exported[1].groups) : Len(exported[1].groups[g].entries) >= 2

\* the entries of a job that have carriers, and the width class each emitted entry was put in
RoutedPairs(result) ==
  UNION {{<<result.groups[g].entries[k], result.groups[g].descType>> :
            k \in 1..Len(result.groups[g].entries)} : g \in 1..Len(result.groups)}

AutoDetectJob ==
  /\ exported # <<>>
  /\ exported[1].ok
  /\ exported[1].strategy = "B"

\* the tags of the descriptors of a buffer the encoder wrote, in file order
RECURSIVE TagsFrom(_, _)
TagsFrom(data, p) ==
  IF p + 2 > Len(data) THEN <<>>
  ELSE LET tag == U16(data, p)
       IN <<tag>> \o TagsFrom(data, p + 2 + (IF tag \in {137, 138} THEN 18
                                             ELSE IF tag \in {201, 202} THEN 24 ELSE 66))

C9_WideMimoRoundTrip ==
  (exported # <<>> /\ exported[1].ok) =>
    LET r == decodeFile(exported[1].buffer)
    IN \A g \in 1..Len(exported[1].groups) :
         exported[1].groups[g].descType = 333 =>
           \A i \in 1..6 :
             (exported[1].groups[g].ant[i] >= 1 /\ exported[1].groups[g].ant[i] < 100000000)
               => /\ g <= Len(r.groups)
                  /\ r.groups[g].ant[i] = exported[1].groups[g].ant[i]

\* the decode result on screen is the decode of the file at hand
Decoded == decodeResults # <<>> /\ decodeResults[1] = decodeFile(file)

\* the last export encoded, with strategy A, the unedited combos and the groups of a decode that had no error
UneditedPreserveJob ==
  /\ exported # <<>>
  /\ origin # <<>>
  /\ origin[1].result.errors = <<>>
  /\ job[1].preserveOriginalGrouping
  /\ job[1].originalGroups = origin[1].result.groups
  /\ job[1].encodeEntries = transferEntries(origin[1].result, FALSE)
  /\ job[1].formatVersion = origin[1].result.formatVersion

memberCounts(groups) == BagOf([g \in 1..Len(groups) |-> Len(groups[g].combos)])

\* C2: decoding a buffer without error and re-encoding its unedited combos with strategy A gives a
\* buffer whose decode has as many groups, with the same member counts, as the first decode
C2_PreserveIdempotence ==
  UneditedPreserveJob =>
    /\ exported[1].ok
    /\ LET r == decodeFile(exported[1].buffer)
       IN /\ Len(r.groups) = Len(origin[1].result.groups)
          /\ memberCounts(r.groups) = memberCounts(origin[1].result.groups)

\* C3: decoding an uncompressed buffer without error and re-encoding its unedited combos with
\* strategy A, the decoded groups and the decoded formatVersion gives the same bytes back
C3_ByteIdentical ==
  (UneditedPreserveJob /\ ~origin[1].result.wasCompressed) =>
    /\ exported[1].ok
    /\ exported[1].buffer = origin[1].file

\* the descriptors of a well-formed buffer, in file order: tag, first byte, byte after the last
RECURSIVE Layout(_, _)
Layout(data, p) ==
  IF p + 2 > Len(data) THEN <<>>
  ELSE LET tag == U16(data, p)
       IN <<[tag |-> tag, first |-> p, end |-> p + DescriptorLength(tag)]>>
          \o Layout(data, p + DescriptorLength(tag))

\* a valid buffer: it decodes without error, its last descriptor ends with the file, and every
\* uplink record stands in a group and gives a combo
ValidBuffer(data) ==
  LET r == decodeFile(data)
  IN /\ Len(data) >= 4
     /\ ~r.threw
     /\ r.errors = <<>>
     /\ r.fptr = Len(data)
     /\ Len(r.combos) = Cardinality({k \in 1..Len(Layout(data, 4)) : Layout(data, 4)[k].tag \in {138, 202, 334}})

\* the uplink record of the whole file the cut falls strictly inside, as a set of 0 or 1 elements
CutRecord ==
  IF cut = <<>> THEN {}
  ELSE {d \in Range(Layout(cut[1].full, 4)) :
          d.tag \in {138, 202, 334} /\ d.first < cut[1].at /\ cut[1].at < d.end}

\* C4: a valid buffer cut strictly inside an uplink record decodes with a non-empty errors list
\* and exactly the combos of the records that ended before the cut
C4_TruncationReported ==
  (/\ cut # <<>>
   /\ Decoded
   /\ ValidBuffer(cut[1].full)
   /\ CutRecord # {})
  => \A d \in CutRecord :
       /\ decodeResults[1].errors # <<>>
       /\ decodeResults[1].combos = decodeFile(SubSeq(cut[1].full, 1, d.first)).combos

\* offset of the first descriptor decodeFile cannot read (unknown tag, read past the end of the
\* buffer, DL header with no band), or -1
RECURSIVE FirstBad(_, _)
FirstBad(data, p) ==
  IF p >= Len(data) THEN -1
  ELSE IF p + 2 > Len(data) THEN p
  ELSE LET tag == U16(data, p)
       IN IF tag \in {137, 201, 333}
          THEN IF p + DescriptorLength(tag) > Len(data) THEN p
               ELSE IF \A i \in 0..5 : U16(data, p + 2 + i * ((DescriptorLength(tag) - 2) \div 6)) = 0 THEN p
               ELSE FirstBad(data, p + DescriptorLength(tag))
          ELSE IF tag \in {138, 202, 334}
          THEN IF p + 2 + (IF tag = 138 THEN 6 ELSE IF tag = 202 THEN 7 ELSE 14) > Len(data) THEN p
               ELSE FirstBad(data, p + DescriptorLength(tag))
          ELSE p

\* C5: when decodeFile meets an unknown tag, a read past the end or a DL header with no band, it
\* returns exactly one message and exactly the combos and groups of the descriptors before the
\* failing one; otherwise it returns no message
C5_FatalStopKeepsPrefix ==
  Decoded =>
    LET r == decodeResults[1]
        bad == IF Len(file) < 4 THEN 0 ELSE FirstBad(file, 4)
    IN IF bad = -1 THEN r.errors = <<>>
       ELSE /\ Len(r.errors) = 1
            /\ IF bad < 4 THEN r.combos = <<>> /\ r.groups = <<>>
               ELSE LET pre == decodeFile(SubSeq(file, 1, bad))
                    IN /\ pre.errors = <<>>
                       /\ r.combos = pre.combos
                       /\ r.groups = pre.groups
                       /\ r.numCombos = Len(pre.combos)
            /\ (bad >= 4 /\ bad + 2 <= Len(file) /\ U16(file, bad) \notin {137, 138, 201, 202, 333, 334})
                 => r.errors[1].kind = "tag"
            /\ (bad >= 4 /\ bad + 2 <= Len(file) /\ U16(file, bad) \in {137, 201, 333}
                /\ bad + DescriptorLength(U16(file, bad)) <= Len(file))
                 => r.errors[1].kind = "nocarrier"

C5_Witness ==
  /\ Decoded
  /\ cut # <<>>
  /\ Len(decodeResults[1].errors) = 1
  /\ decodeResults[1].errors[1].kind = "eof"
  /\ Len(decodeResults[1].combos) >= 1
  /\ Len(decodeResults[1].groups) >= 1

\* the emitted entries of an export that have more than two carriers with an uplink class
OverTwoUplinks(result) ==
  {pair \in RoutedPairs(result) : Len(allULOf(pair[1])) > 2}

\* an uplink record of the given tag in the buffer holds exactly these two (band, class) pairs
HasRecordWith(data, tag, first, second) ==
  \E d \in Range(Layout(data, 4)) :
    /\ d.tag = tag
    /\ U16(data, d.first + 2) = first.band
    /\ U8(data, d.first + 4) = first.ulclass
    /\ U16(data, d.first + 2 + 3 + PairPad(tag)) = second.band
    /\ U8(data, d.first + 2 + 3 + PairPad(tag) + 2) = second.ulclass

\* C10: under every strategy and width an entry with more than two uplink carriers is encoded,
\* its record holds the first two of them, and a warning is recorded for it
C10_TruncationWarned ==
  (exported # <<>> /\ \E i \in 1..Len(job[1].encodeEntries) : Len(allULOf(job[1].encodeEntries[i])) > 2)
  => /\ exported[1].ok
     /\ \A i \in 1..Len(job[1].encodeEntries) :
          Len(allULOf(job[1].encodeEntries[i])) > 2
            => \E pair \in OverTwoUplinks(exported[1]) : pair[1] = job[1].encodeEntries[i]
     /\ \A pair \in OverTwoUplinks(exported[1]) :
          /\ HasRecordWith(exported[1].buffer, pair[2] + 1, allULOf(pair[1])[1], allULOf(pair[1])[2])
          /\ \E w \in exported[1].warnings : w.text = pair[1].text

\* number of descriptors decodeFile counted
statsTotal(r) == r.descriptorStats[137] + r.descriptorStats[138] + r.descriptorStats[201]
                 + r.descriptorStats[202] + r.descriptorStats[333] + r.descriptorStats[334]

\* C11: the uint16 at offset 2 of an encoded buffer is the number of DL headers plus uplink
\* records written in it, and the sum of descriptorStats of its decode
C11_DeclaredCount ==
  (exported # <<>> /\ exported[1].ok) =>
    LET data == exported[1].buffer
        written == Layout(data, 4)
    IN /\ \A k \in 1..Len(written) : written[k].tag \in {137, 138, 201, 202, 333, 334}
       /\ U16(data, 2) = Len(written)
       /\ U16(data, 2) = statsTotal(decodeFile(data))

\* two carrier lists that differ at most in uplink class
SameDownlink(a, b) ==
  /\ Len(a) = Len(b)
  /\ \A k \in 1..Len(a) : a[k].band = b[k].band /\ a[k].bclass = b[k].bclass /\ a[k].ant = b[k].ant

\* the groups of an export an entry is a member of
GroupsOf(result, e) == {g \in 1..Len(result.groups) : e \in Range(result.groups[g].entries)}

\* DL headers in a buffer
HeaderCount(data) ==
  Cardinality({k \in 1..Len(Layout(data, 4)) : Layout(data, 4)[k].tag \in {137, 201, 333}})

FlagStrategyJob ==
  /\ exported # <<>>
  /\ exported[1].ok
  /\ exported[1].strategy \in {"B", "C"}

\* C12: with grouping, two combos of one width class whose carriers differ only in uplink class
\* have equal getDLKey values and stand under one shared DL header; without grouping every
\* emitted combo has a DL header of its own
C12_GroupingByDLKey ==
  FlagStrategyJob =>
    LET entries == job[1].encodeEntries
        result == exported[1]
    IN IF job[1].optimizeGrouping
       THEN \A i, j \in 1..Len(entries) :
              (/\ Len(entries[i].carriers) > 0
               /\ SameDownlink(entries[i].carriers, entries[j].carriers)
               /\ \E t \in {137, 201, 333} :
                    <<entries[i], t>> \in RoutedPairs(result) /\ <<entries[j], t>> \in RoutedPairs(result))
              => /\ getDLKey(entries[i].carriers) = getDLKey(entries[j].carriers)
                 /\ Cardinality(GroupsOf(result, entries[i])) = 1
                 /\ GroupsOf(result, entries[i]) = GroupsOf(result, entries[j])
       ELSE /\ \A g \in 1..Len(result.groups) : Len(result.groups[g].entries) = 1
            /\ HeaderCount(result.buffer) = Len(result.groups)
            /\ Len(result.groups)
                 = Cardinality({i \in 1..Len(entries) :
                                  result.strategy = "C" \/ Len(entries[i].carriers) > 0})

C12_Witness ==
  /\ FlagStrategyJob
  /\ job[1].optimizeGrouping
  /\ \E i, j \in 1..Len(job[1].encodeEntries) :
       /\ SameDownlink(job[1].encodeEntries[i].carriers, job[1].encodeEntries[j].carriers)
       /\ job[1].encodeEntries[i].carriers # job[1].encodeEntries[j].carriers
       /\ GroupsOf(exported[1], job[1].encodeEntries[i]) = GroupsOf(exported[1], job[1].encodeEntries[j])
       /\ HeaderCount(exported[1].buffer) = 1

Validated == validationInput # <<>> /\ validation # <<>>

codesOf(list) == {list[k].code : k \in 1..Len(list)}

\* C13: valid is true exactly when errors is empty, and a violation of the profile's band
\* allow-list or of its per-band MIMO restriction is reported in warnings only and leaves
\* valid as it would be without it
C13_ProfileViolationsAreWarnings ==
  Validated =>
    LET result == validation[1]
    IN /\ result.valid <=> (Len(result.errors) = 0)
       /\ {"UNSUPPORTED_BAND", "UNSUPPORTED_MIMO"} \cap codesOf(result.errors) = {}
       /\ \A k \in 1..Len(result.warnings) : result.warnings[k].severity = "warning"
       /\ \A k \in 1..Len(result.errors) : result.errors[k].severity = "error"

\* profile restrictions of C13 that were violated
BandNotAllowed(carriers, profile) ==
  profile.supportedBands # {} /\ \E i \in 1..Len(carriers) : carriers[i].band \notin profile.supportedBands

MimoNotAllowed(carriers, profile) ==
  \E i \in 1..Len(carriers) :
    /\ carriers[i].band \in DOMAIN profile.bandMimo
    /\ carriers[i].ant \notin profile.bandMimo[carriers[i].band]

\* C13 as the code has it: valid is true exactly when errors is empty; an unsupported MIMO is
\* reported in warnings only, exactly when the profile restricts the band of a carrier to other
\* MIMO values; a band outside the profile's allow-list is reported as an error, exactly then,
\* and makes valid false
C13_OnlyMimoIsWarning ==
  Validated =>
    LET result == validation[1]
        input == validationInput[1]
        profiled == Len(input.carriers) > 0 /\ input.options.profile # <<>>
    IN /\ result.valid <=> (Len(result.errors) = 0)
       /\ "UNSUPPORTED_MIMO" \notin codesOf(result.errors)
       /\ "UNSUPPORTED_MIMO" \in codesOf(result.warnings)
            <=> (profiled /\ MimoNotAllowed(input.carriers, input.options.profile[1]))
       /\ "UNSUPPORTED_BAND" \notin codesOf(result.warnings)
       /\ "UNSUPPORTED_BAND" \in codesOf(result.errors)
            <=> (profiled /\ BandNotAllowed(input.carriers, input.options.profile[1]))
       /\ "UNSUPPORTED_BAND" \in codesOf(result.errors) => ~result.valid
       /\ \A k \in 1..Len(result.warnings) : result.warnings[k].severity = "warning"
       /\ \A k \in 1..Len(result.errors) : result.errors[k].severity = "error"

C13_Witness ==
  /\ Validated
  /\ validationInput[1].options.profile = <<MiFi8800L>>
  /\ MimoNotAllowed(validationInput[1].carriers, MiFi8800L)
  /\ validation[1].valid
  /\ codesOf(validation[1].warnings) = {"UNSUPPORTED_MIMO"}

\* C14: every error message decodeFile records for a per-descriptor failure (unknown tag,
\* buffer underrun, DL header with no carriers) carries the byte offset of the failure
C14_ErrorsCarryOffset ==
  Decoded =>
    \A k \in 1..Len(decodeResults[1].errors) :
      /\ decodeResults[1].errors[k].kind \in {"tag", "eof", "nocarrier"}
      /\ decodeResults[1].errors[k].hasOffset

\* declared descriptor counts a header may carry
DeclaredCounts == {0, 1, 2, 65535}

\* a buffer with another declared count in bytes 2-3
Redeclared(data, n) == [data EXCEPT ![3] = n % 256, ![4] = n \div 256]

SameDecode(a, b) ==
  /\ a.combos = b.combos
  /\ a.groups = b.groups
  /\ a.descriptorStats = b.descriptorStats
  /\ a.maxStreams = b.maxStreams
  /\ a.errors = b.errors

\* C15: the declared descriptor count is informational only: a buffer that differs from the
\* decoded file only in bytes 2-3 decodes to the same combos, groups, descriptorStats,
\* maxStreams and errors, and a decode without error has read to the end of the buffer whatever
\* count is declared
C15_DeclaredCountIgnored ==
  (Decoded /\ Len(file) >= 4 /\ ~isZlibCompressed(file)) =>
    \A n \in DeclaredCounts :
      LET other == decodeFile(Redeclared(file, n))
      IN /\ other.numDescriptors = n
         /\ SameDecode(decodeResults[1], other)
         /\ other.fptr = decodeResults[1].fptr
         /\ Len(other.errors) = 0 => other.fptr >= Len(file)

C15_Witness ==
  /\ Decoded
  /\ Len(file) >= 4
  /\ decodeResults[1].numCombos = 2
  /\ Len(decodeResults[1].errors) = 0
  /\ decodeFile(Redeclared(file, 0)).numCombos = 2
  /\ decodeFile(Redeclared(file, 0)).numDescriptors = 0

\* the uplink records of a buffer, in order
UplinkRecords(data) == Filter(Layout(data, 4), LAMBDA d : d.tag \in {138, 202, 334})

\* the two (band, ulClass) pairs of an uplink record
PairsOf(data, d) ==
  <<[band |-> U16(data, d.first + 2), ulClass |-> U8(data, d.first + 4)],
    [band |-> U16(data, d.first + 5 + PairPad(d.tag)), ulClass |-> U8(data, d.first + 7 + PairPad(d.tag))]>>

\* C16: for every decoded combo, hasULCA is true exactly when more than one pair of its uplink
\* record has a nonzero band
C16_HasULCAByPairs ==
  (Decoded /\ ValidBuffer(file)) =>
    \A k \in 1..Len(decodeResults[1].combos) :
      LET pairs == PairsOf(file, UplinkRecords(file)[k])
      IN decodeResults[1].combos[k].hasULCA <=> Cardinality({j \in 1..2 : pairs[j].band # 0}) > 1

\* the uplink classes after one pair, as C17 has it: a pair with band 0 attaches nothing, any
\* other pair sets the first slot whose band equals it
PairAttached(band, ulclass, pair) ==
  IF pair.band = 0 \/ \A i \in 1..6 : band[i] # pair.band THEN ulclass
  ELSE [ulclass EXCEPT ![CHOOSE i \in 1..6 : band[i] = pair.band /\ \A j \in 1..(i - 1) : band[j] # pair.band]
                         = pair.ulClass]

\* C17: in every uplink record a pair whose band is 0 changes no slot's uplink class, and a pair
\* with a nonzero band sets the uplink class of the first slot whose band equals it and of no other
C17_PairsAttachFirstMatch ==
  (Decoded /\ ValidBuffer(file)) =>
    \A k \in 1..Len(decodeResults[1].combos) :
      LET combo == decodeResults[1].combos[k]
          pairs == PairsOf(file, UplinkRecords(file)[k])
      IN combo.rawUlclass
           = PairAttached(combo.rawBand, PairAttached(combo.rawBand, Zero6, pairs[1]), pairs[2])

\* sum of f(i) over the slots of a combo whose band is not 0
SlotSum(combo, f(_)) ==
  SumSeq([i \in 1..6 |-> IF combo.rawBand[i] # 0 THEN f(i) ELSE 0])

\* C18: for every decoded combo, streams is the sum over the slots with nonzero band of
\* classToCC(bclass[i]) x ant[i], whatever the class and MIMO bytes are
C18_StreamsByMimoByte ==
  Decoded =>
    \A k \in 1..Len(decodeResults[1].combos) :
      LET combo == decodeResults[1].combos[k]
      IN combo.streams = SlotSum(combo, LAMBDA i : classToCC(combo.rawBclass[i]) * combo.rawAnt[i])

\* C18 as the code has it: a slot whose MIMO is 0 counts with MIMO 2
C18_StreamsMimoDefault2 ==
  Decoded =>
    \A k \in 1..Len(decodeResults[1].combos) :
      LET combo == decodeResults[1].combos[k]
      IN combo.streams
           = SlotSum(combo, LAMBDA i : classToCC(combo.rawBclass[i])
                                        * (IF combo.rawAnt[i] = 0 THEN 2 ELSE combo.rawAnt[i]))

C18_Witness ==
  /\ Decoded
  /\ \E k \in 1..Len(decodeResults[1].combos) :
       /\ decodeResults[1].combos[k].descType = 201
       /\ decodeResults[1].combos[k].rawBand = <<3, 0, 0, 0, 0, 0>>
       /\ decodeResults[1].combos[k].rawAnt = Zero6
       /\ decodeResults[1].combos[k].streams = 2
  /\ \E k \in 1..Len(decodeResults[1].combos) : decodeResults[1].combos[k].streams = 8

\* DL headers of a buffer that stand before offset p
HeadersBefore(data, p) ==
  Cardinality({k \in 1..Len(Layout(data, 4)) :
                 Layout(data, 4)[k].tag \in {137, 201, 333} /\ Layout(data, 4)[k].first < p})

\* C19: in every decode result numCombos is combos.length; each combo's groupIdx is the index of
\* the group opened by the last DL header before its uplink record; groups[g].combos lists in
\* increasing order exactly the indices of the combos whose groupIdx is g; and each combo's
\* rawBand/rawBclass/rawAnt are its group's band/bclass/ant
C19_GroupMembership ==
  Decoded =>
    LET r == decodeResults[1]
    IN /\ r.numCombos = Len(r.combos)
       /\ \A k \in 1..Len(r.combos) :
            /\ r.combos[k].groupIdx \in 0..(Len(r.groups) - 1)
            /\ r.combos[k].rawBand = r.groups[r.combos[k].groupIdx + 1].band
            /\ r.combos[k].rawBclass = r.groups[r.combos[k].groupIdx + 1].bclass
            /\ r.combos[k].rawAnt = r.groups[r.combos[k].groupIdx + 1].ant
       /\ \A g \in 1..Len(r.groups) :
            /\ Range(r.groups[g].combos) = {k - 1 : k \in {j \in 1..Len(r.combos) : r.combos[j].groupIdx = g - 1}}
            /\ \A i, j \in 1..Len(r.groups[g].combos) : i < j => r.groups[g].combos[i] < r.groups[g].combos[j]
       /\ ValidBuffer(file) =>
            \A k \in 1..Len(r.combos) :
              r.combos[k].groupIdx = HeadersBefore(file, UplinkRecords(file)[k].first) - 1

C19_Witness ==
  /\ Decoded
  /\ ValidBuffer(file)
  /\ Len(decodeResults[1].groups) = 2
  /\ decodeResults[1].numCombos = 2
  /\ decodeResults[1].combos[1].groupIdx = 0
  /\ decodeResults[1].combos[2].groupIdx = 1
  /\ decodeResults[1].groups[2].combos = <<1>>

\* carriers with an uplink class at indices other than pcellIndex
ULSCells(carriers, pcellIndex) ==
  Cardinality({i \in 1..Len(carriers) : i # pcellIndex + 1 /\ carriers[i].ulclass # 0})

\* C20: validateCombo reports EXCEED_MAX_UL_SCELL exactly when the carriers with an uplink class
\* at indices other than the caller's pcellIndex are more than the ceiling in force: the
\* profile's maxULSCell when a profile is given, the maxULSCell option otherwise
C20_ULSCellCeiling ==
  Validated =>
    LET input == validationInput[1]
        ceiling == IF input.options.profile # <<>> THEN input.options.profile[1].maxULSCell
                   ELSE input.options.maxULSCell
    IN "EXCEED_MAX_UL_SCELL" \in codesOf(validation[1].errors) \cup codesOf(validation[1].warnings)
         <=> ULSCells(input.carriers, input.options.pcellIndex) > ceiling

StrategyAJob ==
  /\ exported # <<>>
  /\ exported[1].ok
  /\ exported[1].strategy = "A"

\* positional 6-slot band:class:mimo key of a carrier list, and of a group
SlotKey(carriers) ==
  [i \in 1..6 |-> IF i <= Len(carriers)
                  THEN <<carriers[i].band, carriers[i].bclass, carriers[i].ant>> ELSE <<0, 0, 0>>]

GroupSlotKey(g) == [i \in 1..6 |-> <<g.band[i], g.bclass[i], g.ant[i]>>]

\* an entry of a strategy A job no original group claims by groupIdx
Unmatched(e) ==
  Len(e.carriers) > 0 /\ ~(e.groupIdx >= 0 /\ e.groupIdx < Len(job[1].originalGroups))

\* the original groups the first pass emitted
EmittedOriginals ==
  {g \in 1..Len(job[1].originalGroups) :
     \E k \in 1..Len(job[1].encodeEntries) : job[1].encodeEntries[k].groupIdx = g - 1}

\* the second-pass rule, for a given choice of the slots that call for the 201 width
SecondPassRule(Wide(_)) ==
  StrategyAJob =>
    LET entries == job[1].encodeEntries
        og == job[1].originalGroups
        groups == exported[1].groups
        newKeys == {SlotKey(entries[k].carriers) : k \in {j \in 1..Len(entries) : Unmatched(entries[j])}}
                   \ {GroupSlotKey(og[g]) : g \in EmittedOriginals}
    IN /\ Len(groups) = Cardinality(EmittedOriginals) + Cardinality(newKeys)
       /\ \A k \in 1..Len(entries) :
            Unmatched(entries[k]) =>
              LET key == SlotKey(entries[k].carriers)
                  home == {g \in 1..Len(groups) : entries[k] \in Range(groups[g].entries)}
                  hit == {g \in EmittedOriginals : GroupSlotKey(og[g]) = key}
              IN /\ Cardinality(home) = 1
                 /\ \A h \in home :
                      /\ GroupSlotKey(groups[h]) = key
                      /\ IF hit # {}
                         THEN LET first == CHOOSE g \in hit : \A x \in hit : g <= x
                              IN /\ groups[h].descType = og[first].descType
                                 /\ \E m \in Range(groups[h].entries) : m.groupIdx = first - 1
                         ELSE /\ groups[h].descType = (IF \E i \in 1..6 : key[i][1] # 0 /\ Wide(key[i][3])
                                                       THEN 201 ELSE 137)
                              /\ \A m \in Range(groups[h].entries) : Unmatched(m) /\ SlotKey(m.carriers) = key
                              /\ \A g \in 1..Len(groups) : GroupSlotKey(groups[g]) = key => g = h

\* C21: strategy A, pass 2: an entry not matched by groupIdx joins the emitted group whose
\* positional band:class:mimo key equals its own; when there is none, one new group per distinct
\* key is made, of type 201 when some nonzero-band slot has a MIMO other than 2, else 137
C21_SecondPassByKey == SecondPassRule(LAMBDA mimo : mimo # 2)

\* C21 as the code has it: a MIMO of 0 does not call for 201 either
C21_SecondPassMimoNot0 == SecondPassRule(LAMBDA mimo : mimo # 2 /\ mimo # 0)

C21_Witness ==
  /\ StrategyAJob
  /\ Len(job[1].encodeEntries) = 2
  /\ \E k \in 1..2 : Unmatched(job[1].encodeEntries[k])
                     /\ SlotKey(job[1].encodeEntries[k].carriers) = GroupSlotKey(job[1].originalGroups[1])
  /\ \E k \in 1..2 : ~Unmatched(job[1].encodeEntries[k])
  /\ Len(exported[1].groups) = 1
  /\ Len(exported[1].groups[1].entries) = 2

C21_WitnessNewGroup ==
  /\ StrategyAJob
  /\ Len(exported[1].groups) = 2
  /\ \E g \in 1..2 : exported[1].groups[g].descType = 201
                     /\ \A m \in Range(exported[1].groups[g].entries) : Unmatched(m)

\* C22: strategy A output is deterministic in the set of inputs: for fixed original groups and
\* formatVersion, every ordering of the entry list gives a byte-identical buffer
C22_OrderIndependent ==
  StrategyAJob =>
    \A reordered \in Orderings(job[1].encodeEntries) :
      encodeToBuffer([job[1] EXCEPT !.encodeEntries = reordered]).buffer = exported[1].buffer

\* C23: getComboKey and combosEqual are order-insensitive: a combo and every reordering of its
\* carriers have the same key, so combosEqual holds between them
C23_KeyOrderInsensitive ==
  (comboInput # <<>> /\ equal # <<>>) =>
    /\ equal[1]
    /\ getComboKey(comboInput[1].combo) = getComboKey(comboInput[1].reordered)

\* the carrier at a pcellIndex of a combo
pcellOf(c) == c.carriers[c.pcellIndex[1] + 1]

\* C24: normalizeCombo makes pcellIndex follow the primary cell: the carrier at the returned
\* pcellIndex is the same carrier (band, class, MIMO, uplink class) as the one at the input's
C24_PcellIndexFollows ==
  (comboInput # <<>> /\ normalized # <<>> /\ comboInput[1].combo.pcellIndex # <<>>) =>
    /\ normalized[1].pcellIndex # <<>>
    /\ pcellOf(normalized[1]) = pcellOf(comboInput[1].combo)

\* C25: under strategy A every uplink record stands under a DL header that describes the
\* entry's own carriers: the decoded output holds, for each entry, a combo with that entry's
\* band, class and MIMO per carrier, also when the entry's text was edited after the transfer
C25_HeaderDescribesEntry ==
  StrategyAJob =>
    LET r == decodeFile(exported[1].buffer)
    IN \A i \in 1..Len(job[1].encodeEntries) :
         Len(job[1].encodeEntries[i].carriers) > 0 =>
           \E k \in 1..Len(r.combos) :
             comboTuple(r.combos[k]).dl = entryTuple(job[1].encodeEntries[i]).dl

\* C26: every decoded combo's descType is the descType of the group it belongs to: an uplink
\* record is attributed only to a group of the paired header type, whatever the tag sequence
C26_ComboTypeIsGroupType ==
  Decoded =>
    LET r == decodeResults[1]
    IN \A k \in 1..Len(r.combos) :
         /\ r.combos[k].groupIdx \in 0..(Len(r.groups) - 1)
         /\ r.combos[k].descType = r.groups[r.combos[k].groupIdx + 1].descType

\* C27: for every formatVersion, decodeFile applied to the buffer encodeToBuffer produced with it
\* takes the uncompressed path (no decompression attempted, wasCompressed false) and returns
\* that formatVersion
C27_VersionRoundTrip ==
  (exported # <<>> /\ exported[1].ok) =>
    LET r == decodeFile(exported[1].buffer)
    IN /\ ~isZlibCompressed(exported[1].buffer)
       /\ ~r.wasCompressed
       /\ ~r.threw
       /\ r.formatVersion = job[1].formatVersion

\* C28: in every decode that records no error the number of combos is the number of uplink
\* records read and the number of groups is the number of DL headers read: no uplink record is
\* dropped silently, also not one that stands before any DL header
C28_NoRecordDropped ==
  (Decoded /\ Len(decodeResults[1].errors) = 0) =>
    LET r == decodeResults[1]
    IN /\ Len(r.combos) = r.descriptorStats[138] + r.descriptorStats[202] + r.descriptorStats[334]
       /\ r.numCombos = Len(r.combos)
       /\ Len(r.groups) = r.descriptorStats[137] + r.descriptorStats[201] + r.descriptorStats[333]

\* C29: every buffer encodeToBuffer returns is decodable and complete: for every non-empty entry
\* list and every combination of the strategy flags, decodeFile on the buffer records no error
\* and returns exactly one combo per entry
C29_DecodableAndComplete ==
  (exported # <<>> /\ exported[1].ok /\ Len(job[1].encodeEntries) > 0) =>
    LET r == decodeFile(exported[1].buffer)
    IN /\ ~r.threw
       /\ Len(r.errors) = 0
       /\ Len(r.combos) = Len(job[1].encodeEntries)

\* the entries a strategy would write now
EncodedNow ==
  LET result == encodeToBuffer(encodeArgs)
  IN IF result.ok
     THEN UNION {Range(result.groups[g].entries) : g \in 1..Len(result.groups)}
     ELSE {}

\* C30: after any sequence of table operations every entry's carriers are the carriers parsed
\* from its current text, and an entry whose text does not parse has no carriers and is never
\* encoded
C30_TextCarrierCoherence ==
  /\ \A i \in 1..Len(encodeEntries) :
       LET parsed == parseComboString(encodeEntries[i].text)
       IN encodeEntries[i].carriers = IF parsed.ok THEN parsed.carriers ELSE <<>>
  /\ \A e \in EncodedNow : parseComboString(e.text).ok

====
